---- MODULE Spec2Model ----
(***************************************************************************)
(* A model of the node coordinator of server.go: the processor goroutine   *)
(* that applies broker messages, Sync, SetClient/Open/Close, and the apply  *)
(* handlers that maintain the catalog (data nodes, databases, retention     *)
(* policies, shard groups).                                                 *)
(***************************************************************************)
EXTENDS Integers, Sequences, FiniteSets, TLC

\* ------------------------------------------------------------------ bounds

\* Messages the broker log holds in the processor specification.
MaxMsgs == 2
\* Processor goroutines started over the life of the server.
MaxProcs == 2
\* Direct calls of Sync besides the one each broadcast makes.
MaxSyncCalls == 1
\* Messages applied in the catalog specification.
MaxIndex == 6
\* Largest timestamp of a create-shard-group command.
MaxTime == 2
\* Largest duration of a retention policy command.
MaxDuration == 2
\* Messages applied in the replica specification.
MaxReplicaIndex == 4
\* Calls of WriteSeries in the write specification.
MaxWrites == 2
\* Writes a shard store takes in the write specification.
MaxRawWrites == 3
\* Messages with a payload that cannot be decoded in the write specification.
MaxMalformed == 1
\* Messages applied in the retention specification before its last
\* operation starts, and the latest time of an enforcement run.
MaxRetentionIndex == 7
\* Calls of Publish that succeed before the one that fails.
MaxPublishes == 3
MaxNow == 4
\* The statements of a query, and the highest privilege (read, write,
\* all).
MaxStatements == 3
MaxPrivilege == 3
\* The goroutines that RunContinuousQueries starts.
MaxRuns == 4
\* The calls of Open that return an error.
MaxOpens == 2

Callers == {"c1", "c2"}
Procs == 1..MaxProcs
DbNames == {"db"}
PolicyNames == {"rp"}
URLs == {"u1", "u2", "u3"}
\* Measurement names, tag sets (as marshalTags writes them), field names and
\* data types of the points written, each in ascending key order.
MeasurementNames == <<"cpu">>
TagSets == <<"a", "b">>
FieldNames == <<"v", "w">>
DataTypes == {"number", "string"}
\* The orders in which a range over a Go map may visit its keys.
MapOrders == {"asc", "desc"}
\* The url of this node, which Initialize registers.
LocalURL == "u1"

\* ------------------------------------------------------------------ values

\* A nil error, a nil pointer of an update command, the closed server path.
NoErr == ""
NoVal == -1

ErrServerClosed == "server closed"
ErrDataNodeURLRequired == "data node url required"
ErrDataNodeExists == "data node exists"
ErrDataNodeNotFound == "data node not found"
ErrDatabaseExists == "database exists"
ErrDatabaseNotFound == "database not found"
ErrRetentionPolicyExists == "retention policy exists"
ErrRetentionPolicyNotFound == "retention policy not found"
ErrRetentionPolicyNameRequired == "retention policy name required"
ErrMeasurementNotFound == "measurement not found"
ErrFieldTypeConflict == "field type conflict"
ErrShardNotFound == "shard not found"
\* The errors WriteSeries builds with fmt.Errorf, and the codec's.
ErrFieldTypeMismatch == "field is type, mapped as type"
ErrDatabaseNotFoundQ == "database not found (quoted)"
ErrEncodeFields == "encode fields"
\* The error of a metastore update that failed.
ErrMetaUpdate == "metastore update"
\* The error of a Publish that the broker's client failed.
ErrPublish == "publish"

createDataNodeMessageType == "createDataNode"
deleteDataNodeMessageType == "deleteDataNode"
createDatabaseMessageType == "createDatabase"
deleteDatabaseMessageType == "deleteDatabase"
createRetentionPolicyMessageType == "createRetentionPolicy"
updateRetentionPolicyMessageType == "updateRetentionPolicy"
createShardGroupIfNotExistsMessageType == "createShardGroupIfNotExists"
deleteShardGroupMessageType == "deleteShardGroup"
createMeasurementsIfNotExistsMessageType == "createMeasurementsIfNotExists"
writeRawSeriesMessageType == "writeRawSeries"
deleteRetentionPolicyMessageType == "deleteRetentionPolicy"
setDefaultRetentionPolicyMessageType == "setDefaultRetentionPolicy"

\* A command: the JSON payload of a message, with every field of every
\* command struct; a field a command does not have holds its zero value.
Command(typ, database, name, url, id, duration, replicaN, newName, timestamp) ==
    [type |-> typ, database |-> database, name |-> name, url |-> url, id |-> id,
     duration |-> duration, replicaN |-> replicaN, newName |-> newName,
     timestamp |-> timestamp]

createDataNodeCommand(url) ==
    Command(createDataNodeMessageType, "", "", url, 0, 0, 0, "", 0)

deleteDataNodeCommand(id) ==
    Command(deleteDataNodeMessageType, "", "", "", id, 0, 0, "", 0)

createDatabaseCommand(name) ==
    Command(createDatabaseMessageType, "", name, "", 0, 0, 0, "", 0)

deleteDatabaseCommand(name) ==
    Command(deleteDatabaseMessageType, "", name, "", 0, 0, 0, "", 0)

createRetentionPolicyCommand(database, name, duration, replicaN) ==
    Command(createRetentionPolicyMessageType, database, name, "", 0, duration,
            replicaN, "", 0)

\* Policy.Name, Policy.Duration and Policy.ReplicaN are pointers: NoVal and
\* "" stand for nil.
updateRetentionPolicyCommand(database, name, newName, duration, replicaN) ==
    Command(updateRetentionPolicyMessageType, database, name, "", 0, duration,
            replicaN, newName, 0)

createShardGroupIfNotExistsCommand(database, policy, timestamp) ==
    Command(createShardGroupIfNotExistsMessageType, database, policy, "", 0, 0,
            0, "", timestamp)

\* The command of create-measurements-if-not-exists: measurements maps a
\* name to its subcommand [Tags: the tag sets, Fields: name -> type].
createMeasurementsIfNotExistsCommand(database, measurements) ==
    [type |-> createMeasurementsIfNotExistsMessageType, database |-> database,
     measurements |-> measurements]

deleteRetentionPolicyCommand(database, name) ==
    Command(deleteRetentionPolicyMessageType, database, name, "", 0, 0, 0, "", 0)

setDefaultRetentionPolicyCommand(database, name) ==
    Command(setDefaultRetentionPolicyMessageType, database, name, "", 0, 0, 0, "", 0)

deleteShardGroupCommand(database, policy, id) ==
    Command(deleteShardGroupMessageType, database, policy, "", id, 0, 0, "", 0)

Message(index, c) == [index |-> index, type |-> c.type, data |-> c]

NoMsg == [index |-> 0, type |-> "", data |-> Command("", "", "", "", 0, 0, 0, "", 0)]

\* ------------------------------------------------------------------ helpers

Range(f) == {f[x] : x \in DOMAIN f}

Min(a, b) == IF a < b THEN a ELSE b

Max(a, b) == IF a > b THEN a ELSE b

MaxOf(S) == IF S = {} THEN 0 ELSE CHOOSE x \in S : \A y \in S : y <= x

\* A map with key k set to v, and with key k deleted.
MapPut(f, k, v) == [x \in DOMAIN f \cup {k} |-> IF x = k THEN v ELSE f[x]]

MapDelete(f, k) == [x \in DOMAIN f \ {k} |-> f[x]]

EmptyMap == [x \in {} |-> 0]

\* The elements of a set of numbers in ascending order.
RECURSIVE SortedSeq(_)
SortedSeq(S) ==
    IF S = {} THEN <<>>
    ELSE LET lo == CHOOSE x \in S : \A y \in S : x <= y
         IN <<lo>> \o SortedSeq(S \ {lo})

\* ------------------------------------------------------------------ catalog

\* The server's catalog and shard state, as the apply handlers read and
\* write it: s.id, s.dataNodes (id -> url), s.databases (name -> database),
\* s.shards (the ids in the shard map), the shard stores that are open, the
\* topics subscribed on the broker, and the metastore's sequences (the last
\* value each one handed out).
NewCatalog ==
    [id |-> 0,
     dataNodes |-> EmptyMap,
     databases |-> EmptyMap,
     shards |-> {},
     \* The ids of s.shards whose entry is a shard of a catalog that load has
     \* since replaced: the entry's store is closed, and the catalog's shard
     \* of that id is another object.
     stale |-> {},
     stores |-> {},
     subs |-> {},
     nextDataNodeID |-> 0,
     nextShardGroupID |-> 0,
     nextShardID |-> 0,
     \* s.shardsBySeriesID, and the writes the shard stores have taken.
     shardsBySeriesID |-> EmptyMap,
     writes |-> <<>>,
     \* The node's surroundings: the order its map ranges run in, and whether
     \* the metastore fails the next update.
     mapOrder |-> "asc",
     metaFail |-> FALSE]

\* A database; nextSeriesID is the metastore's series sequence for it.
newDatabase(name) ==
    [name |-> name, policies |-> EmptyMap, defaultRetentionPolicy |-> "",
     measurements |-> EmptyMap, nextSeriesID |-> 0]

\* What replicas must agree on: the catalog, without the node's own id, its
\* stores and subscriptions, and its surroundings.
Catalog(s) ==
    [dataNodes |-> s.dataNodes, databases |-> s.databases,
     nextDataNodeID |-> s.nextDataNodeID, nextShardGroupID |-> s.nextShardGroupID,
     nextShardID |-> s.nextShardID]

\* The outcome of a handler: the state it leaves, the error it returns, and
\* whether it panicked (a panic ends the process).
Result(s, err) == [s |-> s, err |-> err, panic |-> FALSE]

Panic(s) == [s |-> s, err |-> NoErr, panic |-> TRUE]

\* time.Time.Truncate: t rounded down to a multiple of d since the zero
\* time; t itself when d <= 0.
Truncate(t, d) == IF d <= 0 THEN t ELSE t - (t % d)

\* The first group of the policy whose window [StartTime, EndTime) holds the
\* timestamp, as an index into rp.shardGroups; 0 when there is none.
shardGroupByTimestamp(rp, timestamp) ==
    LET hits == {i \in 1..Len(rp.shardGroups) :
                    /\ rp.shardGroups[i].StartTime <= timestamp
                    /\ timestamp < rp.shardGroups[i].EndTime}
    IN IF hits = {} THEN 0 ELSE CHOOSE i \in hits : \A j \in hits : i <= j

HasDataNodeID(sh, id) == id \in Range(sh.DataNodeIDs)

applyCreateDataNode(s, m) ==
    LET c == m.data
        id == s.nextDataNodeID + 1
    IN IF c.url = "" THEN Result(s, ErrDataNodeURLRequired)
       ELSE IF \E n \in DOMAIN s.dataNodes : s.dataNodes[n] = c.url
            THEN Result(s, ErrDataNodeExists)
       ELSE Result([s EXCEPT !.nextDataNodeID = id,
                             !.dataNodes = MapPut(s.dataNodes, id, c.url)], NoErr)

applyDeleteDataNode(s, m) ==
    LET c == m.data
    IN IF c.id \notin DOMAIN s.dataNodes THEN Result(s, ErrDataNodeNotFound)
       ELSE Result([s EXCEPT !.dataNodes = MapDelete(s.dataNodes, c.id)], NoErr)

applyCreateDatabase(s, m) ==
    LET c == m.data
    IN IF c.name \in DOMAIN s.databases THEN Result(s, ErrDatabaseExists)
       ELSE Result([s EXCEPT !.databases =
                        MapPut(s.databases, c.name, newDatabase(c.name))], NoErr)

applyDeleteDatabase(s, m) ==
    LET c == m.data
    IN IF c.name \notin DOMAIN s.databases THEN Result(s, ErrDatabaseNotFound)
       ELSE Result([s EXCEPT !.databases = MapDelete(s.databases, c.name)], NoErr)

applyCreateRetentionPolicy(s, m) ==
    LET c == m.data
    IN IF c.database \notin DOMAIN s.databases THEN Result(s, ErrDatabaseNotFound)
       ELSE IF c.name = "" THEN Result(s, ErrRetentionPolicyNameRequired)
       ELSE IF c.name \in DOMAIN s.databases[c.database].policies
            THEN Result(s, ErrRetentionPolicyExists)
       ELSE Result([s EXCEPT !.databases[c.database].policies =
                        MapPut(@, c.name, [Name |-> c.name,
                                           Duration |-> c.duration,
                                           ReplicaN |-> c.replicaN,
                                           shardGroups |-> <<>>])], NoErr)

applyUpdateRetentionPolicy(s, m) ==
    LET c == m.data
    IN IF c.database \notin DOMAIN s.databases THEN Result(s, ErrDatabaseNotFound)
       ELSE IF c.name = "" THEN Result(s, ErrRetentionPolicyNameRequired)
       ELSE IF c.name \notin DOMAIN s.databases[c.database].policies
            THEN Result(s, ErrRetentionPolicyNotFound)
       ELSE LET policies == s.databases[c.database].policies
                p == policies[c.name]
                name == IF c.newName # "" THEN c.newName ELSE p.Name
                q == [p EXCEPT !.Name = name,
                               !.Duration = IF c.duration # NoVal THEN c.duration ELSE @,
                               !.ReplicaN = IF c.replicaN # NoVal THEN c.replicaN ELSE @]
            IN Result([s EXCEPT !.databases[c.database].policies =
                           MapPut(MapDelete(policies, p.Name), name, q)], NoErr)

\* applyDeleteRetentionPolicy, lines 1403-1429.
applyDeleteRetentionPolicy(s, m) ==
    LET c == m.data
    IN IF c.database \notin DOMAIN s.databases THEN Result(s, ErrDatabaseNotFound)
       ELSE IF c.name = "" THEN Result(s, ErrRetentionPolicyNameRequired)
       ELSE IF c.name \notin DOMAIN s.databases[c.database].policies
            THEN Result(s, ErrRetentionPolicyNotFound)
       ELSE Result([s EXCEPT !.databases[c.database].policies =
                        MapDelete(@, c.name)], NoErr)

\* applySetDefaultRetentionPolicy, lines 1443-1467.
applySetDefaultRetentionPolicy(s, m) ==
    LET c == m.data
    IN IF c.database \notin DOMAIN s.databases THEN Result(s, ErrDatabaseNotFound)
       ELSE IF c.name \notin DOMAIN s.databases[c.database].policies
            THEN Result(s, ErrRetentionPolicyNotFound)
       ELSE Result([s EXCEPT !.databases[c.database].defaultRetentionPolicy =
                        c.name], NoErr)

\* Lines 844-850: at least one replica, no more replicas than nodes.
replicaCount(policyReplicaN, nodeN) ==
    IF policyReplicaN = 0 THEN 1
    ELSE IF policyReplicaN > nodeN THEN nodeN
    ELSE policyReplicaN

\* A handler that never finds an existing group.
existingShardGroupNever(rp, c) == 0

\* Lines 827-830: the group that makes the request a no-op, if there is one.
existingShardGroup(rp, c) == shardGroupByTimestamp(rp, c.timestamp)

\* Lines 832-835: the window of a new group.
newShardGroupStart(timestamp, duration) == Truncate(timestamp, duration)

newShardGroupEnd(timestamp, duration) == newShardGroupStart(timestamp, duration) + duration

\* A round robin that always starts at the first node.
firstNodeIndexZero(index, nodes) == 0

\* Line 875: where the round robin starts.
firstNodeIndex(index, nodes) == index % Len(nodes)

\* Replicas that all take the node at nodeIndex: nodeIndex is not moved on.
RECURSIVE appendSameDataNodeID(_, _, _, _)
appendSameDataNodeID(ids, nodes, nodeIndex, i) ==
    IF i = 0 THEN ids
    ELSE appendSameDataNodeID(Append(ids, nodes[(nodeIndex % Len(nodes)) + 1]),
                              nodes, nodeIndex, i - 1)

\* Lines 877-881: the replicas of one shard, from nodeIndex on; each replica
\* takes nodes[nodeIndex % len(nodes)] and moves nodeIndex on by one.
RECURSIVE appendDataNodeIDs(_, _, _, _)
appendDataNodeIDs(ids, nodes, nodeIndex, i) ==
    IF i = 0 THEN ids
    ELSE appendDataNodeIDs(Append(ids, nodes[(nodeIndex % Len(nodes)) + 1]),
                           nodes, nodeIndex + 1, i - 1)

\* Lines 869-882: ids and data nodes for the shards of a new group, shard by
\* shard; nodeIndex runs on from one shard to the next.
RECURSIVE assignShards(_, _, _, _, _, _)
assignShards(shards, shardN, nextID, nodes, nodeIndex, replicaN) ==
    IF Len(shards) = shardN THEN shards
    ELSE assignShards(
             Append(shards, [ID |-> nextID + 1,
                             DataNodeIDs |->
                                 appendDataNodeIDs(<<>>, nodes, nodeIndex, replicaN)]),
             shardN, nextID + 1, nodes, nodeIndex + replicaN, replicaN)

applyCreateShardGroupIfNotExists(s, m) ==
    LET c == m.data
    IN IF c.database \notin DOMAIN s.databases THEN Result(s, ErrDatabaseNotFound)
       ELSE IF c.name \notin DOMAIN s.databases[c.database].policies
            THEN Result(s, ErrRetentionPolicyNotFound)
       ELSE LET rp == s.databases[c.database].policies[c.name]
                nodes == SortedSeq(DOMAIN s.dataNodes)
                replicaN == replicaCount(rp.ReplicaN, Len(nodes))
            IN IF existingShardGroup(rp, c) # 0 THEN Result(s, NoErr)
               \* len(nodes) / replicaN and m.Index % len(nodes) divide by zero.
               ELSE IF replicaN = 0 \/ Len(nodes) = 0 THEN Panic(s)
               ELSE LET shardN == Len(nodes) \div replicaN
                        g == [ID |-> s.nextShardGroupID + 1,
                              StartTime |-> newShardGroupStart(c.timestamp, rp.Duration),
                              EndTime |-> newShardGroupEnd(c.timestamp, rp.Duration),
                              Shards |-> assignShards(<<>>, shardN, s.nextShardID, nodes,
                                                      firstNodeIndex(m.index, nodes),
                                                      replicaN)]
                        owned == {g.Shards[k].ID : k \in
                                     {k \in 1..shardN : HasDataNodeID(g.Shards[k], s.id)}}
                    IN Result([s EXCEPT
                           !.nextShardGroupID = g.ID,
                           !.nextShardID = s.nextShardID + shardN,
                           !.databases[c.database].policies[c.name].shardGroups =
                               Append(@, g),
                           !.stores = @ \cup owned,
                           !.shards = @ \cup {g.Shards[k].ID : k \in 1..shardN},
                           !.subs = @ \cup owned], NoErr)

\* RetentionPolicy.shardGroupByID: the index of the group, 0 for nil.
shardGroupByID(rp, id) ==
    LET hits == {i \in DOMAIN rp.shardGroups : rp.shardGroups[i].ID = id}
    IN IF hits = {} THEN 0 ELSE CHOOSE i \in hits : TRUE

\* A removal that takes the first group of the policy, whatever the id.
removeFirstShardGroup(rp, id) == Tail(rp.shardGroups)

\* RetentionPolicy.removeShardGroupByID: the groups without that one.
removeShardGroupByID(rp, id) ==
    LET keep(g) == g.ID # id
    IN SelectSeq(rp.shardGroups, keep)

\* applyDeleteShardGroup, lines 943-990: the stores of the shards this node
\* holds are closed and their files removed, the group is taken out of the
\* policy, and then the database is saved; the error is the update's.
applyDeleteShardGroup(s, m) ==
    LET c == m.data
    IN IF c.database \notin DOMAIN s.databases THEN Result(s, ErrDatabaseNotFound)
       ELSE IF c.name \notin DOMAIN s.databases[c.database].policies
            THEN Result(s, ErrRetentionPolicyNotFound)
       ELSE LET rp == s.databases[c.database].policies[c.name]
                i == shardGroupByID(rp, c.id)
            IN IF i = 0 THEN Result(s, NoErr)
               ELSE LET g == rp.shardGroups[i]
                        owned == {g.Shards[k].ID : k \in
                                     {k \in DOMAIN g.Shards :
                                          HasDataNodeID(g.Shards[k], s.id)}}
                    IN Result([s EXCEPT
                           !.stores = @ \ owned,
                           !.databases[c.database].policies[c.name].shardGroups =
                               removeShardGroupByID(rp, c.id),
                           !.metaFail = FALSE],
                           IF s.metaFail THEN ErrMetaUpdate ELSE NoErr)

\* The keys of a map in the order the node's range visits them: list holds
\* the possible keys in ascending order.
Reverse(q) == [i \in 1..Len(q) |-> q[Len(q) + 1 - i]]

rangeKeys(keys, list, order) ==
    LET present(k) == k \in keys
        asc == SelectSeq(list, present)
    IN IF order = "asc" THEN asc ELSE Reverse(asc)

\* database.MeasurementAndSeries: the measurement of that name and its
\* series of that tag set, "" and 0 standing for nil.
measurementOf(db, name) == IF name \in DOMAIN db.measurements THEN name ELSE ""

\* A lookup that finds no series, whatever the catalog holds.
seriesNever(db, name, tags) == 0

seriesOf(db, name, tags) ==
    IF name \in DOMAIN db.measurements /\ tags \in DOMAIN db.measurements[name].series
    THEN db.measurements[name].series[tags] ELSE 0

newMeasurement(name) == [Name |-> name, fields |-> <<>>, series |-> EmptyMap]

\* metatx.createSeries and database.addSeriesToIndex: the series takes the
\* next id of the database's sequence; its measurement is made if missing.
createSeries(db, name, tags) ==
    LET id == db.nextSeriesID + 1
        mm == IF name \in DOMAIN db.measurements THEN db.measurements[name]
              ELSE newMeasurement(name)
    IN [db EXCEPT !.nextSeriesID = id,
                  !.measurements =
                      MapPut(@, name, [mm EXCEPT !.series = MapPut(@, tags, id)])]

\* Lines 1773-1787: the series of one subcommand, in range order; a series
\* that exists is skipped.
RECURSIVE createSeriesAll(_, _, _)
createSeriesAll(db, name, tagsets) ==
    IF tagsets = <<>> THEN db
    ELSE createSeriesAll(IF seriesOf(db, name, Head(tagsets)) # 0 THEN db
                         ELSE createSeries(db, name, Head(tagsets)),
                         name, Tail(tagsets))

FieldByName(mm, k) ==
    LET hits == {i \in 1..Len(mm.fields) : mm.fields[i].Name = k}
    IN IF hits = {} THEN 0 ELSE CHOOSE i \in hits : TRUE

\* Measurement.createFieldIfNotExists: a field that exists with the type is
\* left alone, one that exists with another type is a conflict (which the
\* handler logs and skips), a new one takes the next field id.
createFieldIfNotExists(mm, k, typ) ==
    IF FieldByName(mm, k) # 0 THEN mm
    ELSE [mm EXCEPT !.fields = Append(@, [ID |-> Len(@) + 1, Name |-> k, Type |-> typ])]

\* Lines 1794-1808: the fields of one subcommand, in range order.
RECURSIVE createFieldsAll(_, _, _)
createFieldsAll(mm, names, fields) ==
    IF names = <<>> THEN mm
    ELSE createFieldsAll(createFieldIfNotExists(mm, Head(names), fields[Head(names)]),
                         Tail(names), fields)

\* Lines 1771-1812: the subcommands, in range order. A subcommand whose
\* measurement is missing after its series were made panics.
RECURSIVE createMeasurementsAll(_, _, _, _)
createMeasurementsAll(db, names, measurements, order) ==
    IF names = <<>> THEN [db |-> db, panic |-> FALSE]
    ELSE LET cm == measurements[Head(names)]
             db1 == createSeriesAll(db, Head(names),
                                    rangeKeys(cm.Tags, TagSets, order))
         IN IF Head(names) \notin DOMAIN db1.measurements
            THEN [db |-> db1, panic |-> TRUE]
            ELSE createMeasurementsAll(
                     [db1 EXCEPT !.measurements[Head(names)] =
                          createFieldsAll(@, rangeKeys(DOMAIN cm.Fields, FieldNames, order),
                                          cm.Fields)],
                     Tail(names), measurements, order)

applyCreateMeasurementsIfNotExists(s, m) ==
    LET c == m.data
    IN IF c.database \notin DOMAIN s.databases THEN Result(s, ErrDatabaseNotFound)
       ELSE LET r == createMeasurementsAll(
                         s.databases[c.database],
                         rangeKeys(DOMAIN c.measurements, MeasurementNames, s.mapOrder),
                         c.measurements, s.mapOrder)
            IN IF r.panic THEN Panic(s)
               ELSE Result([s EXCEPT !.databases[c.database] = r.db], NoErr)

\* Lines 2713-2750: the processor's switch on the message type.
apply(s, m) ==
    CASE m.type = createDataNodeMessageType -> applyCreateDataNode(s, m)
      [] m.type = deleteDataNodeMessageType -> applyDeleteDataNode(s, m)
      [] m.type = createDatabaseMessageType -> applyCreateDatabase(s, m)
      [] m.type = deleteDatabaseMessageType -> applyDeleteDatabase(s, m)
      [] m.type = createRetentionPolicyMessageType -> applyCreateRetentionPolicy(s, m)
      [] m.type = updateRetentionPolicyMessageType -> applyUpdateRetentionPolicy(s, m)
      [] m.type = createShardGroupIfNotExistsMessageType ->
             applyCreateShardGroupIfNotExists(s, m)
      [] m.type = createMeasurementsIfNotExistsMessageType ->
             applyCreateMeasurementsIfNotExists(s, m)
      [] m.type = deleteShardGroupMessageType -> applyDeleteShardGroup(s, m)
      [] m.type = deleteRetentionPolicyMessageType -> applyDeleteRetentionPolicy(s, m)
      [] m.type = setDefaultRetentionPolicyMessageType ->
             applySetDefaultRetentionPolicy(s, m)
      [] OTHER -> Result(s, NoErr)

\* ------------------------------------------------------------------ state

VARIABLES
    cat,        \* the catalog and shard state (see NewCatalog)
    path,       \* s.path: "" while the server is closed
    done,       \* s.done: the processor whose done channel it is, 0 for nil
    client,     \* s.client: 0 for nil
    index,      \* s.index
    errors,     \* s.errors: index -> error
    rlock,      \* the callers that hold s.mu.RLock
    log,        \* the broker's log: the messages published, in index order
    cursor,     \* how many messages of the log client.C() has delivered
    procs,      \* the processor goroutines
    callers,    \* the goroutines that call broadcast and Sync
    crashed,    \* the process has panicked
    last,       \* the catalog specification: the last message applied
    prev,       \* the catalog specification: the catalog before that message
    applied,    \* history: the indexes whose handler has run, in that order
    recorded,   \* history: index -> the error the processor recorded for it
    returns,    \* history: index -> what each Sync(index) returned, in order:
                \* the error, and s.index at the return
    syncCalls,  \* history: the direct calls of Sync made
    replica,    \* the replica specification: a second node that applies the
                \* same messages
    write,      \* the write specification: the last call of WriteSeries
    raw,        \* the write specification: the write-raw-series apply under way
    sweep,      \* the retention specification: the last enforcement run
    rtask,      \* the retention task: s.rpDone and the task's goroutine
    lk,         \* the lock specification: what each goroutine runs and holds
    query,      \* the query specification: the last call of ExecuteQuery
    cqs,        \* the continuous-query specification: the goroutines that run queries
    opens       \* the open specification: the calls of Open that returned an error

vars == <<cat, path, done, client, index, errors, rlock, log, cursor, procs,
          callers, crashed, last, prev, applied, recorded, returns, syncCalls,
          replica, write, raw, sweep, rtask, lk, query, cqs, opens>>

\* The variables that the processor and catalog specifications leave alone.
extVars == <<replica, write, raw, sweep, rtask, lk, query, cqs, opens>>

\* Those of the lifecycle, lock and query specifications.
lateVars == <<rtask, lk, query, cqs, opens>>

\* The variables of the processor specification only.
procVars == <<path, done, client, rlock, log, cursor, procs, callers, applied,
              recorded, returns, syncCalls>>

\* The variables of the catalog specification only.
catalogVars == <<last, prev>>

opened == path # ""

NoProc == [state |-> "none", closed |-> FALSE, m |-> NoMsg, err |-> NoErr]

\* No message applied yet in the catalog specification.
NoLast == [m |-> NoMsg, err |-> NoErr]

NoCall == [pc |-> "idle", index |-> 0, err |-> NoErr, ok |-> FALSE]

\* No WriteSeries called, no write-raw-series apply under way, no
\* enforcement run yet.
NoWrite == [called |-> FALSE, calls |-> 0]

NoRaw == [active |-> FALSE]

NoSweep == [ran |-> FALSE]

\* The goroutines of the lock specification: one that calls the server's
\* operations, and the processor.
LockThreads == {"caller", "processor"}

\* A goroutine that runs nothing and holds nothing.
Idle == [op |-> "", pc |-> 0, holds |-> ""]

NoThreads == [t \in LockThreads |-> Idle]

\* No call of Open has returned an error.
NoOpens == [calls |-> 0, err |-> NoErr, was |-> FALSE]

\* No goroutine of a continuous query started.
NoRuns == [g \in 1..MaxRuns |-> [state |-> "none", target |-> ""]]

\* No query executed yet.
NoQuery == [called |-> FALSE]

\* No retention enforcement started: s.rpDone is nil.
NoTask == [done |-> "nil", state |-> "none"]

Init ==
    /\ cat = NewCatalog
    /\ path = ""
    /\ done = 0
    /\ client = 0
    /\ index = 0
    /\ errors = EmptyMap
    /\ rlock = {}
    /\ log = <<>>
    /\ cursor = 0
    /\ procs = [p \in Procs |-> NoProc]
    /\ callers = [c \in Callers |-> NoCall]
    /\ crashed = FALSE
    /\ last = NoLast
    /\ prev = NewCatalog
    /\ applied = <<>>
    /\ recorded = EmptyMap
    /\ returns = [i \in 1..MaxMsgs |-> <<>>]
    /\ syncCalls = 0
    /\ replica = NewCatalog
    /\ write = NoWrite
    /\ raw = NoRaw
    /\ sweep = NoSweep
    /\ rtask = NoTask
    /\ lk = NoThreads
    /\ query = NoQuery
    /\ cqs = NoRuns
    /\ opens = NoOpens

\* ------------------------------------------------------------------ lifecycle

\* Open, lines 193-226: no lock is taken. load reads the catalog back from
\* the metastore, as new objects, and opens the store of every shard of
\* every group; s.shards is left as it is, with the shards of the catalog
\* that was there before.
allShardIDs(s) ==
    UNION {UNION {UNION {{g.Shards[k].ID : k \in DOMAIN g.Shards} :
                         g \in Range(s.databases[d].policies[r].shardGroups)} :
                  r \in DOMAIN s.databases[d].policies} :
           d \in DOMAIN s.databases}

load(s) == [s EXCEPT !.stores = @ \cup allShardIDs(s), !.stale = s.shards]

Open ==
    /\ ~crashed
    /\ ~opened
    /\ path' = "data"
    /\ cat' = load(cat)
    /\ UNCHANGED <<done, client, index, errors, rlock, log, cursor, procs, callers,
                   crashed, last, prev, extVars, applied, recorded, returns, syncCalls>>

\* setClient, lines 367-390, with the server's path as it is at the call:
\* on a closed server nothing changes; on an open one the previous
\* processor's done channel is closed and, for a client that is not nil, a
\* new processor starts.
stopProcessor(ps, d) == IF d = 0 THEN ps ELSE [ps EXCEPT ![d].closed = TRUE]

freeProc == CHOOSE p \in Procs \cup {0} :
                /\ p # 0 => procs[p].state = "none"
                /\ \A q \in Procs : procs[q].state = "none" => p # 0 /\ p <= q

setClient(pathNow, newClient) ==
    IF pathNow = ""
    THEN [err |-> ErrServerClosed, done |-> done, client |-> client, procs |-> procs]
    ELSE IF newClient = 0
    THEN [err |-> NoErr, done |-> 0, client |-> newClient,
          procs |-> stopProcessor(procs, done)]
    ELSE [err |-> NoErr, done |-> freeProc, client |-> newClient,
          procs |-> [stopProcessor(procs, done) EXCEPT ![freeProc].state = "select"]]

\* SetClient, lines 361-365, under the write lock.
SetClient(newClient) ==
    /\ ~crashed
    /\ rlock = {}
    /\ newClient # 0 => freeProc # 0
    /\ LET r == setClient(path, newClient)
       IN /\ done' = r.done
          /\ client' = r.client
          /\ procs' = r.procs
    /\ UNCHANGED <<cat, path, index, errors, rlock, log, cursor, callers, crashed,
                   last, prev, extVars, applied, recorded, returns, syncCalls>>

\* StartRetentionPolicyEnforcement, lines 316-332, with an interval that is
\* not zero: no lock is taken; s.rpDone is a new channel and the task's
\* goroutine starts.
StartRetentionPolicyEnforcement ==
    /\ ~crashed
    /\ rtask.state = "none"
    /\ rtask' = [done |-> "open", state |-> "select"]
    /\ UNCHANGED <<cat, path, done, client, index, errors, rlock, log, cursor, procs,
                   callers, crashed, last, prev, replica, write, raw, sweep,
                   applied, recorded, returns, syncCalls, lk, query, cqs, opens>>

\* The task's select, lines 323-328, with its done channel closed: the
\* goroutine returns. (Its other case calls EnforceRetentionPolicies.)
RetentionExit ==
    /\ ~crashed
    /\ rtask.state = "select"
    /\ rtask.done = "closed"
    /\ rtask' = [rtask EXCEPT !.state = "exit"]
    /\ UNCHANGED <<cat, path, done, client, index, errors, rlock, log, cursor, procs,
                   callers, crashed, last, prev, replica, write, raw, sweep,
                   applied, recorded, returns, syncCalls, lk, query, cqs, opens>>

\* Close, lines 232-259, under the write lock: s.rpDone is closed when it is
\* not nil (closing a channel that is closed already panics), the path is
\* cleared, then setClient(nil) runs, then every shard of the shard map is
\* closed.
Close ==
    /\ ~crashed
    /\ rlock = {}
    /\ opened
    /\ IF rtask.done = "closed"
       THEN /\ crashed' = TRUE
            /\ UNCHANGED <<cat, path, done, client, procs, rtask>>
       ELSE /\ rtask' = IF rtask.done = "open" THEN [rtask EXCEPT !.done = "closed"]
                        ELSE rtask
            /\ path' = ""
            /\ LET r == setClient("", 0)
               IN /\ done' = r.done
                  /\ client' = r.client
                  /\ procs' = r.procs
            /\ cat' = [cat EXCEPT !.stores = @ \ (cat.shards \ cat.stale)]
            /\ UNCHANGED crashed
    /\ UNCHANGED <<index, errors, rlock, log, cursor, callers, last, prev, replica,
                   write, raw, sweep, applied, recorded, returns, syncCalls, lk,
                   query, cqs, opens>>

\* ------------------------------------------------------------------ processor

\* processor, lines 2698-2705: the select. With the done channel closed the
\* goroutine returns; with a message on client.C() it takes the message; with
\* both ready the select takes either.
ProcExit(p) ==
    /\ ~crashed
    /\ procs[p].state = "select"
    /\ procs[p].closed
    /\ procs' = [procs EXCEPT ![p].state = "exit"]
    /\ UNCHANGED <<cat, path, done, client, index, errors, rlock, log, cursor,
                   callers, crashed, last, prev, extVars, applied, recorded, returns, syncCalls>>

ProcRecv(p) ==
    /\ ~crashed
    /\ procs[p].state = "select"
    /\ cursor < Len(log)
    /\ cursor' = cursor + 1
    /\ procs' = [procs EXCEPT ![p].state = "check", ![p].m = log[cursor + 1]]
    /\ UNCHANGED <<cat, path, done, client, index, errors, rlock, log, callers,
                   crashed, last, prev, extVars, applied, recorded, returns, syncCalls>>

\* Lines 2707-2711: a message taken while the server is closed is skipped.
ProcCheckOpened(p) ==
    /\ ~crashed
    /\ procs[p].state = "check"
    /\ procs' = IF opened THEN [procs EXCEPT ![p].state = "apply"]
                ELSE [procs EXCEPT ![p].state = "select", ![p].m = NoMsg]
    /\ UNCHANGED <<cat, path, done, client, index, errors, rlock, log, cursor,
                   callers, crashed, last, prev, extVars, applied, recorded, returns, syncCalls>>

\* Lines 2713-2750: the handler of the message's type, which takes the write
\* lock for its whole body.
ProcApply(p) ==
    /\ ~crashed
    /\ procs[p].state = "apply"
    /\ rlock = {}
    /\ LET r == apply(cat, procs[p].m)
       IN /\ cat' = r.s
          /\ crashed' = r.panic
          /\ procs' = [procs EXCEPT ![p].state = "sync", ![p].err = r.err]
    /\ applied' = Append(applied, procs[p].m.index)
    /\ UNCHANGED <<path, done, client, index, errors, rlock, log, cursor, callers,
                   last, prev, extVars, recorded, returns, syncCalls>>

\* Lines 2752-2758: the high water mark and the error, under the write lock.
syncHighWaterMark(current, m) == m.index

ProcSync(p) ==
    /\ ~crashed
    /\ procs[p].state = "sync"
    /\ rlock = {}
    /\ index' = syncHighWaterMark(index, procs[p].m)
    /\ errors' = IF procs[p].err # NoErr
                 THEN MapPut(errors, procs[p].m.index, procs[p].err)
                 ELSE errors
    /\ recorded' = MapPut(recorded, procs[p].m.index, procs[p].err)
    /\ procs' = [procs EXCEPT ![p].state = "select", ![p].m = NoMsg, ![p].err = NoErr]
    /\ UNCHANGED <<cat, path, done, client, rlock, log, cursor, callers, crashed,
                   last, prev, extVars, applied, returns, syncCalls>>

\* ------------------------------------------------------------------ callers

\* The commands the callers of the processor specification broadcast.
ProcCommands ==
    {createDatabaseCommand(n) : n \in DbNames} \cup
    {deleteDatabaseCommand(n) : n \in DbNames}

\* broadcast, lines 395-417: Publish gives the message the next index of the
\* log; the caller then waits in Sync for that index.
Broadcast(c, cmd) ==
    /\ ~crashed
    /\ callers[c].pc \in {"idle", "done"}
    /\ client # 0
    /\ Len(log) < MaxMsgs
    /\ log' = Append(log, Message(Len(log) + 1, cmd))
    /\ callers' = [callers EXCEPT ![c] = [NoCall EXCEPT !.pc = "sync",
                                                        !.index = Len(log) + 1]]
    /\ UNCHANGED <<cat, path, done, client, index, errors, rlock, cursor, procs,
                   crashed, last, prev, extVars, applied, recorded, returns, syncCalls>>

\* A direct call of Sync for an index the broker has assigned.
CallSync(c, i) ==
    /\ ~crashed
    /\ callers[c].pc \in {"idle", "done"}
    /\ syncCalls < MaxSyncCalls
    /\ i \in 1..Len(log)
    /\ syncCalls' = syncCalls + 1
    /\ callers' = [callers EXCEPT ![c] = [NoCall EXCEPT !.pc = "sync", !.index = i]]
    /\ UNCHANGED <<cat, path, done, client, index, errors, rlock, log, cursor, procs,
                   crashed, last, prev, extVars, applied, recorded, returns>>

\* Sync, lines 424-427: under the read lock, once s.index has reached the
\* index, the error of the index is read. (While s.index is below it the
\* caller unlocks, sleeps and tries again, which changes nothing.)
SyncRead(c) ==
    /\ ~crashed
    /\ callers[c].pc = "sync"
    /\ index >= callers[c].index
    /\ rlock' = rlock \cup {c}
    /\ callers' = [callers EXCEPT
                      ![c].pc = "locked",
                      ![c].ok = callers[c].index \in DOMAIN errors,
                      ![c].err = IF callers[c].index \in DOMAIN errors
                                 THEN errors[callers[c].index] ELSE NoErr]
    /\ UNCHANGED <<cat, path, done, client, index, errors, log, cursor, procs,
                   crashed, last, prev, extVars, applied, recorded, returns, syncCalls>>

\* Sync, lines 427-431: still under the read lock, the entry that was found
\* is deleted, the lock is released and the error returned.
SyncReturn(c) ==
    /\ ~crashed
    /\ callers[c].pc = "locked"
    /\ errors' = IF callers[c].ok THEN MapDelete(errors, callers[c].index) ELSE errors
    /\ rlock' = rlock \ {c}
    /\ callers' = [callers EXCEPT ![c].pc = "done"]
    /\ returns' = [returns EXCEPT ![callers[c].index] =
                       Append(@, [err |-> callers[c].err, at |-> index])]
    /\ UNCHANGED <<cat, path, done, client, index, log, cursor, procs, crashed,
                   last, prev, extVars, applied, recorded, syncCalls>>

Next ==
    \/ Open
    \/ Close
    \/ StartRetentionPolicyEnforcement
    \/ RetentionExit
    \/ \E cl \in {0, 1} : SetClient(cl)
    \/ \E p \in Procs : ProcExit(p)
    \/ \E p \in Procs : ProcRecv(p)
    \/ \E p \in Procs : ProcCheckOpened(p)
    \/ \E p \in Procs : ProcApply(p)
    \/ \E p \in Procs : ProcSync(p)
    \/ \E c \in Callers, cmd \in ProcCommands : Broadcast(c, cmd)
    \/ \E c \in Callers, i \in 1..MaxMsgs : CallSync(c, i)
    \/ \E c \in Callers : SyncRead(c)
    \/ \E c \in Callers : SyncReturn(c)

Spec == Init /\ [][Next]_vars

\* ------------------------------------------------------------------ catalog specification

\* One broadcast that runs to its end on an open node with one processor and
\* nothing else going on: Publish gives the command the next index, the
\* processor applies it and records the index and the error, and Sync
\* returns the error and deletes it. A handler that panics ends the process.
delivered(cmd, r, panicked) ==
    /\ prev' = cat
    /\ last' = [m |-> Message(index + 1, cmd), err |-> r.err]
    /\ crashed' = panicked
    /\ index' = IF panicked THEN index
                ELSE syncHighWaterMark(index, Message(index + 1, cmd))

broadcast(cmd) ==
    /\ ~crashed
    /\ index < MaxIndex
    /\ \E r \in {apply(cat, Message(index + 1, cmd))} :
          /\ delivered(cmd, r, r.panic)
          /\ cat' = r.s

\* The public operations, lines 605, 652, 701, 735, 1278, 1338 and 802.
CreateDataNode(url) ==
    /\ broadcast(createDataNodeCommand(url))
    /\ UNCHANGED <<errors, procVars, extVars>>

DeleteDataNode(id) ==
    /\ broadcast(deleteDataNodeCommand(id))
    /\ UNCHANGED <<errors, procVars, extVars>>

CreateDatabase(name) ==
    /\ broadcast(createDatabaseCommand(name))
    /\ UNCHANGED <<errors, procVars, extVars>>

DeleteDatabase(name) ==
    /\ broadcast(deleteDatabaseCommand(name))
    /\ UNCHANGED <<errors, procVars, extVars>>

CreateRetentionPolicy(database, name, duration, replicaN) ==
    /\ broadcast(createRetentionPolicyCommand(database, name, duration, replicaN))
    /\ UNCHANGED <<errors, procVars, extVars>>

UpdateRetentionPolicy(database, name, duration, replicaN) ==
    /\ broadcast(updateRetentionPolicyCommand(database, name, "", duration, replicaN))
    /\ UNCHANGED <<errors, procVars, extVars>>

CreateShardGroupIfNotExists(database, policy, timestamp) ==
    /\ broadcast(createShardGroupIfNotExistsCommand(database, policy, timestamp))
    /\ UNCHANGED <<errors, procVars, extVars>>

\* Initialize, lines 441-464: the node creates its own data node, which must
\* get id 1 (the assertion panics otherwise), and takes that id.
Initialize(url) ==
    /\ ~crashed
    /\ index < MaxIndex
    /\ \E r \in {apply(cat, Message(index + 1, createDataNodeCommand(url)))} :
          LET ids == {n \in DOMAIN r.s.dataNodes : r.s.dataNodes[n] = url}
          IN /\ delivered(createDataNodeCommand(url), r, r.err = NoErr /\ ids # {1})
             /\ cat' = IF r.err = NoErr /\ ids = {1} THEN [r.s EXCEPT !.id = 1]
                       ELSE r.s
    /\ UNCHANGED <<errors, procVars, extVars>>

\* The node after Open and SetClient: open, with a client and a processor.
InitCatalog ==
    /\ cat = NewCatalog
    /\ path = "data"
    /\ done = 1
    /\ client = 1
    /\ index = 0
    /\ errors = EmptyMap
    /\ rlock = {}
    /\ log = <<>>
    /\ cursor = 0
    /\ procs = [p \in Procs |-> IF p = 1 THEN [NoProc EXCEPT !.state = "select"]
                                ELSE NoProc]
    /\ callers = [c \in Callers |-> NoCall]
    /\ crashed = FALSE
    /\ last = NoLast
    /\ prev = NewCatalog
    /\ applied = <<>>
    /\ recorded = EmptyMap
    /\ returns = [i \in 1..MaxMsgs |-> <<>>]
    /\ syncCalls = 0
    /\ replica = NewCatalog
    /\ write = NoWrite
    /\ raw = NoRaw
    /\ sweep = NoSweep
    /\ rtask = NoTask
    /\ lk = NoThreads
    /\ query = NoQuery
    /\ cqs = NoRuns
    /\ opens = NoOpens

Durations == 0..MaxDuration
\* Replication factors: none, and one to as many as there can be nodes.
Replicas == 0..Cardinality(URLs)
Timestamps == 0..MaxTime
\* The updates of a policy: a new duration, a new replication factor, or
\* neither.
Updates ==
    {<<dur, NoVal>> : dur \in Durations} \cup {<<NoVal, r>> : r \in Replicas}
        \cup {<<NoVal, NoVal>>}

NextCatalog ==
    \/ Initialize(LocalURL)
    \/ \E u \in URLs : CreateDataNode(u)
    \/ \E id \in 1..Cardinality(URLs) : DeleteDataNode(id)
    \/ \E n \in DbNames : CreateDatabase(n)
    \/ \E n \in DbNames : DeleteDatabase(n)
    \/ \E d \in DbNames, n \in PolicyNames, dur \in Durations, r \in Replicas :
           CreateRetentionPolicy(d, n, dur, r)
    \/ \E d \in DbNames, n \in PolicyNames, u \in Updates :
           UpdateRetentionPolicy(d, n, u[1], u[2])
    \/ \E d \in DbNames, n \in PolicyNames, ts \in Timestamps :
           CreateShardGroupIfNotExists(d, n, ts)

SpecCatalog == InitCatalog /\ [][NextCatalog]_vars

\* ------------------------------------------------------------------ liveness specification

\* The node that stays open with a processor running: SetClient gives it
\* a new client (and a new processor) but never nil, and nothing closes it.
NextLive ==
    \/ SetClient(1)
    \/ \E p \in Procs : ProcExit(p)
    \/ \E p \in Procs : ProcRecv(p)
    \/ \E p \in Procs : ProcCheckOpened(p)
    \/ \E p \in Procs : ProcApply(p)
    \/ \E p \in Procs : ProcSync(p)
    \/ \E c \in Callers, cmd \in ProcCommands : Broadcast(c, cmd)
    \/ \E c \in Callers, i \in 1..MaxMsgs : CallSync(c, i)
    \/ \E c \in Callers : SyncRead(c)
    \/ \E c \in Callers : SyncReturn(c)

\* The scheduler runs every goroutine that can take a step: each processor
\* (lines 2693-2760) and each caller inside Sync (lines 421-438).
Fairness ==
    /\ \A p \in Procs :
           WF_vars(ProcExit(p) \/ ProcRecv(p) \/ ProcCheckOpened(p)
                       \/ ProcApply(p) \/ ProcSync(p))
    /\ \A c \in Callers : WF_vars(SyncRead(c) \/ SyncReturn(c))

SpecLive == InitCatalog /\ [][NextLive]_vars /\ Fairness

\* ------------------------------------------------------------------ claims

\* C1: the applied index never decreases and is the highest broker index
\* among the messages the processor has applied (handler run, index and
\* error recorded) so far.
C1_IndexIsHighestApplied == index = MaxOf(DOMAIN recorded)

\* C2: Sync(i) does not return while the applied index is below i, and what
\* it returns is the error the apply of message i recorded (success when
\* that apply recorded none).
C2_SyncReturnsRecordedError ==
    \A i \in 1..MaxMsgs :
        returns[i] # <<>> =>
            /\ returns[i][1].at >= i
            /\ i \in DOMAIN recorded => returns[i][1].err = recorded[i]

\* C3: for an index whose apply recorded an error, the first Sync of that
\* index to complete returns the error and every later one returns success:
\* the error is returned exactly once.
C3_ErrorReturnedOnce ==
    \A i \in DOMAIN recorded :
        recorded[i] # NoErr /\ returns[i] # <<>> =>
            /\ returns[i][1].err = recorded[i]
            /\ \A k \in 2..Len(returns[i]) : returns[i][k].err = NoErr

\* C4: once a caller's Sync(i) has returned, every message delivered to the
\* node with an index up to i has been applied to the catalog.
C4_SyncedCallerSeesPrefix ==
    \A c \in Callers :
        callers[c].pc = "done" =>
            \A j \in 1..callers[c].index : j <= cursor => j \in Range(applied)

\* C5: at no time are two processors in the apply step (lines 2713-2758:
\* the handler, then the index and the error) each with a message of its own.
C5_SerialApply ==
    Cardinality({p \in Procs : procs[p].state \in {"apply", "sync"}}) <= 1

\* The policy a command of the catalog specification names, in catalog s.
policyOf(s, c) == s.databases[c.database].policies[c.name]

\* The last message was a create-shard-group-if-not-exists that named an
\* existing policy.
lastNamesPolicy ==
    /\ last.m.type = createShardGroupIfNotExistsMessageType
    /\ last.m.data.database \in DOMAIN prev.databases
    /\ last.m.data.name \in DOMAIN prev.databases[last.m.data.database].policies

\* The last message created a shard group: the newest group of its policy.
createdGroup ==
    /\ lastNamesPolicy
    /\ cat.nextShardGroupID = prev.nextShardGroupID + 1

newGroup ==
    LET groups == policyOf(cat, last.m.data).shardGroups IN groups[Len(groups)]

\* The groups of a policy whose window holds t.
groupsHolding(rp, t) ==
    {i \in 1..Len(rp.shardGroups) :
        rp.shardGroups[i].StartTime <= t /\ t < rp.shardGroups[i].EndTime}

\* C6: for every database, policy and timestamp, at most one shard group of
\* the policy has a window that holds the timestamp.
C6_AtMostOneGroupPerTimestamp ==
    \A d \in DOMAIN cat.databases :
        \A p \in DOMAIN cat.databases[d].policies :
            \A t \in 0..(MaxTime + MaxDuration) :
                Cardinality(groupsHolding(cat.databases[d].policies[p], t)) <= 1

\* C7: a group created for timestamp ts starts at ts truncated to the
\* policy's duration, ends one duration later, and its window holds ts.
C7_NewGroupWindow ==
    createdGroup =>
        LET ts == last.m.data.timestamp
            d == policyOf(prev, last.m.data).Duration
        IN /\ newGroup.StartTime = Truncate(ts, d)
           /\ newGroup.EndTime = newGroup.StartTime + d
           /\ newGroup.StartTime <= ts
           /\ ts < newGroup.EndTime

\* C8: create-shard-group-if-not-exists for a timestamp that a group of the
\* policy already holds returns success and changes nothing: catalog,
\* shard and group sequences, shard map, stores and subscriptions.
C8_CreateShardGroupIdempotent ==
    (/\ lastNamesPolicy
     /\ groupsHolding(policyOf(prev, last.m.data), last.m.data.timestamp) # {})
        => /\ last.err = NoErr
           /\ cat = prev
           /\ ~crashed

\* C8 witness: a request for a timestamp an existing group holds was applied.
C8_Witness ==
    /\ lastNamesPolicy
    /\ groupsHolding(policyOf(prev, last.m.data), last.m.data.timestamp) # {}
    /\ cat.shards # {}
    /\ cat.subs # {}

Distinct(seq) == \A i, j \in DOMAIN seq : i # j => seq[i] # seq[j]

C10_ReferencePlacement ==
    createdGroup =>
        LET nodes == SortedSeq(DOMAIN prev.dataNodes)
            n == Len(nodes)
            replicaN == Min(Max(policyOf(prev, last.m.data).ReplicaN, 1), n)
            shardN == n \div replicaN
        IN /\ Len(newGroup.Shards) = shardN
           /\ \A k \in 0..(shardN - 1) :
                 /\ Len(newGroup.Shards[k + 1].DataNodeIDs) = replicaN
                 /\ \A j \in 0..(replicaN - 1) :
                       newGroup.Shards[k + 1].DataNodeIDs[j + 1] =
                           nodes[(((last.m.index % n) + k * replicaN + j) % n) + 1]

\* C10 witness: a group of several shards was placed from an offset that is
\* not the first node.
C10_Witness ==
    /\ createdGroup
    /\ Len(newGroup.Shards) >= 2
    /\ last.m.index % Cardinality(DOMAIN prev.dataNodes) # 0

\* ------------------------------------------------------------------ write path

\* A point: a measurement name, a tag set, a timestamp, and values, each
\* value standing for its data type (influxql.InspectDataType).
Point(name, tags, timestamp, values) ==
    [Name |-> name, Tags |-> tags, Timestamp |-> timestamp, Values |-> values]

\* Lines 1492-1545: the command under construction, as its Measurements map.
addMeasurementIfNotExists(c, name) ==
    IF name \in DOMAIN c THEN c
    ELSE MapPut(c, name, [Tags |-> {}, Fields |-> EmptyMap])

\* The caller drops the error, so only the command is returned.
addSeriesIfNotExists(c, name, tags) ==
    IF name \notin DOMAIN c THEN c
    ELSE [c EXCEPT ![name].Tags = @ \cup {tags}]

addFieldIfNotExists(c, name, k, typ) ==
    IF name \notin DOMAIN c THEN [c |-> c, err |-> ErrMeasurementNotFound]
    ELSE IF k \in DOMAIN c[name].Fields
    THEN [c |-> c,
          err |-> IF c[name].Fields[k] # typ THEN ErrFieldTypeConflict ELSE NoErr]
    ELSE [c |-> [c EXCEPT ![name].Fields = MapPut(@, k, typ)], err |-> NoErr]

\* Lines 1723-1742: the values of one point, in range order; the first
\* error ends the walk.
RECURSIVE addPointFields(_, _, _, _)
addPointFields(c, db, p, keys) ==
    IF keys = <<>> THEN [c |-> c, err |-> NoErr]
    ELSE LET k == Head(keys)
             typ == p.Values[k]
             add == addFieldIfNotExists(c, p.Name, k, typ)
         IN IF measurementOf(db, p.Name) # ""
            THEN LET mm == db.measurements[p.Name]
                     f == FieldByName(mm, k)
                 IN IF f = 0 THEN addPointFields(c, db, p, Tail(keys))
                    ELSE IF mm.fields[f].Type # typ
                    THEN [c |-> c, err |-> ErrFieldTypeMismatch]
                    ELSE IF add.err # NoErr THEN add
                    ELSE addPointFields(add.c, db, p, Tail(keys))
            ELSE IF add.err # NoErr THEN add
                 ELSE addPointFields(add.c, db, p, Tail(keys))

\* Lines 1709-1745: the points of the batch, in order.
RECURSIVE addPoints(_, _, _, _)
addPoints(c, db, points, order) ==
    IF points = <<>> THEN [c |-> c, err |-> NoErr]
    ELSE LET p == Head(points)
             c1 == IF measurementOf(db, p.Name) = ""
                   THEN addMeasurementIfNotExists(c, p.Name) ELSE c
             c2 == IF seriesOf(db, p.Name, p.Tags) = 0
                   THEN addSeriesIfNotExists(c1, p.Name, p.Tags) ELSE c1
             r == addPointFields(c2, db, p,
                                 rangeKeys(DOMAIN p.Values, FieldNames, order))
         IN IF r.err # NoErr THEN r ELSE addPoints(r.c, db, Tail(points), order)

\* Lines 1700-1746: the local function that builds the command, with the
\* error it returns.
measurementsCommand(s, database, points) ==
    IF database \notin DOMAIN s.databases
    THEN [c |-> EmptyMap, err |-> ErrDatabaseNotFoundQ]
    ELSE addPoints(EmptyMap, s.databases[database], points, s.mapOrder)

\* An operation under way on a serial node: the node's state, the index of
\* the broker's last message, the messages the operation has published, the
\* index the node has applied, and how the operation ended. publishes is
\* the number of calls of client.Publish that succeed before one fails
\* (NoVal: none fails).
Run(s, brokerIndex, appliedIndex) ==
    [s |-> s, brokerIndex |-> brokerIndex, log |-> <<>>, index |-> appliedIndex,
     err |-> NoErr, panic |-> FALSE, publishes |-> NoVal]

\* A Publish made: what is left of the successes.
afterPublish(n) == IF n = NoVal THEN NoVal ELSE n - 1

\* Line 405: the topic of the messages that broadcast publishes.
BroadcastTopicID == 0

BroadcastMessage(idx, cmd) ==
    [index |-> idx, type |-> cmd.type, topic |-> BroadcastTopicID, data |-> cmd]

\* broadcast, lines 395-417, with the processor applying the message
\* (lines 2713-2758) before Sync returns its error.
broadcastRun(w, cmd) ==
    LET m == BroadcastMessage(w.brokerIndex + 1, cmd)
        r == apply(w.s, m)
    IN IF w.publishes = 0 THEN [w EXCEPT !.err = ErrPublish]
       ELSE [s |-> r.s, brokerIndex |-> m.index, log |-> Append(w.log, m),
             index |-> IF r.panic THEN w.index ELSE syncHighWaterMark(w.index, m),
             err |-> r.err, panic |-> r.panic, publishes |-> afterPublish(w.publishes)]

\* createMeasurementsIfNotExists, lines 1696-1756: the error of the local
\* function is dropped; a command that is not empty is broadcast.
createMeasurementsIfNotExists(w, database, points) ==
    LET c == measurementsCommand(w.s, database, points).c
    IN IF DOMAIN c = {} THEN w
       ELSE broadcastRun(w, createMeasurementsIfNotExistsCommand(database, c))

\* Server.shardGroupByTimestamp, lines 771-777, and the database's lookup:
\* the index of the group in its policy, 0 for nil.
groupByTimestamp(s, database, policy, timestamp) ==
    IF database \notin DOMAIN s.databases THEN [g |-> 0, err |-> ErrDatabaseNotFound]
    ELSE IF policy \notin DOMAIN s.databases[database].policies
    THEN [g |-> 0, err |-> ErrRetentionPolicyNotFound]
    ELSE [g |-> shardGroupByTimestamp(s.databases[database].policies[policy], timestamp),
          err |-> NoErr]

\* createShardGroupsIfNotExists, lines 1824-1840.
RECURSIVE createShardGroupsIfNotExists(_, _, _, _)
createShardGroupsIfNotExists(w, database, policy, points) ==
    IF points = <<>> THEN w
    ELSE LET look == groupByTimestamp(w.s, database, policy, Head(points).Timestamp)
             w1 == broadcastRun(w, createShardGroupIfNotExistsCommand(
                                       database, policy, Head(points).Timestamp))
         IN IF look.err # NoErr THEN [w EXCEPT !.err = look.err]
            ELSE IF look.g # 0
            THEN createShardGroupsIfNotExists(w, database, policy, Tail(points))
            ELSE IF w1.panic \/ w1.err # NoErr THEN w1
            ELSE createShardGroupsIfNotExists(w1, database, policy, Tail(points))

\* The bytes of a point header [u32 seriesID | u32 length | i64 unixNano]
\* and of one encoded field (its id and its value).
pointHeaderSize == 16
encodedFieldSize == 9

\* FieldCodec.EncodeFields: each value under its field's id. A value whose
\* field the measurement does not have cannot be encoded; a value of
\* another type than its field's is refused by a codec that is strict.
EncodeFields(mm, values, strict) ==
    IF \E k \in DOMAIN values : FieldByName(mm, k) = 0
    THEN [data |-> {}, err |-> ErrEncodeFields]
    ELSE IF strict /\ \E k \in DOMAIN values :
                         mm.fields[FieldByName(mm, k)].Type # values[k]
    THEN [data |-> {}, err |-> ErrEncodeFields]
    ELSE [data |-> {<<mm.fields[FieldByName(mm, k)].ID, values[k]>> : k \in DOMAIN values},
          err |-> NoErr]

\* marshalPointHeader and the payload: one record of a raw-series batch.
pointRecord(seriesID, timestamp, data) ==
    [seriesID |-> seriesID, payloadLength |-> encodedFieldSize * Cardinality(data),
     timestamp |-> timestamp, fields |-> data]

\* A routing that sends every series to the first shard of the group.
firstShard(g, seriesID) == g.Shards[1]

\* ShardGroup.ShardBySeriesID: shards[seriesID mod |shards|].
ShardBySeriesID(g, seriesID) == g.Shards[(seriesID % Len(g.Shards)) + 1]

\* Lines 1580-1632: the records of the batch, by destination shard. A point
\* whose series is missing, or whose timestamp no group holds, panics.
RECURSIVE routePoints(_, _, _, _, _, _)
routePoints(s, database, policy, points, shardData, strict) ==
    IF points = <<>> THEN [shardData |-> shardData, err |-> NoErr, panic |-> FALSE]
    ELSE IF database \notin DOMAIN s.databases
    THEN [shardData |-> shardData, err |-> ErrDatabaseNotFoundQ, panic |-> FALSE]
    ELSE LET p == Head(points)
             db == s.databases[database]
             series == seriesOf(db, p.Name, p.Tags)
             look == groupByTimestamp(s, database, policy, p.Timestamp)
         IN IF series = 0
            THEN [shardData |-> shardData, err |-> NoErr, panic |-> TRUE]
            ELSE IF look.err # NoErr
            THEN [shardData |-> shardData, err |-> look.err, panic |-> FALSE]
            ELSE IF look.g = 0
            THEN [shardData |-> shardData, err |-> NoErr, panic |-> TRUE]
            ELSE LET sh == ShardBySeriesID(db.policies[policy].shardGroups[look.g],
                                           series)
                     enc == EncodeFields(db.measurements[p.Name], p.Values, strict)
                     old == IF sh.ID \in DOMAIN shardData THEN shardData[sh.ID]
                            ELSE <<>>
                 IN IF enc.err # NoErr
                    THEN [shardData |-> shardData, err |-> enc.err, panic |-> FALSE]
                    ELSE routePoints(
                             s, database, policy, Tail(points),
                             MapPut(shardData, sh.ID,
                                    Append(old, pointRecord(series, p.Timestamp,
                                                            enc.data))),
                             strict)

\* A write-raw-series message: its topic is the shard's id.
RawMessage(idx, topic, data) ==
    [index |-> idx, type |-> writeRawSeriesMessageType, topic |-> topic,
     data |-> data]

\* Lines 1634-1648: one Publish for each shard of shardData, in range
\* order, up to the first that fails: the messages published.
RECURSIVE publishShardData(_, _, _, _, _)
publishShardData(sent, brokerIndex, shardData, ids, n) ==
    IF ids = <<>> \/ n = 0 THEN sent
    ELSE publishShardData(
             Append(sent,
                    RawMessage(brokerIndex + 1, Head(ids), shardData[Head(ids)])),
             brokerIndex + 1, shardData, Tail(ids), afterPublish(n))

\* WriteSeries, lines 1557-1649, with a retention policy named by the
\* caller, from the run w1 that createMeasurementsIfNotExists leaves, the
\* run w2 that createShardGroupsIfNotExists leaves and the routing rt:
\* what it returns (maxIndex, err), whether it panicked, the messages it
\* published, and the node and the log it leaves.
WriteSeriesRun(w1, w2, rt) ==
    LET ids == IF w2.s.mapOrder = "asc" THEN SortedSeq(DOMAIN rt.shardData)
               ELSE Reverse(SortedSeq(DOMAIN rt.shardData))
        out == publishShardData(<<>>, w2.brokerIndex, rt.shardData, ids,
                                w2.publishes)
        stop(w) == [run |-> w, maxIndex |-> 0, published |-> <<>>]
    IN IF w1.panic \/ w1.err # NoErr THEN stop(w1)
       ELSE IF w2.panic \/ w2.err # NoErr THEN stop(w2)
       ELSE IF rt.panic \/ rt.err # NoErr
       THEN stop([w2 EXCEPT !.err = rt.err, !.panic = rt.panic])
       ELSE [run |-> [w2 EXCEPT !.log = @ \o out,
                                !.brokerIndex = @ + Len(out),
                                !.err = IF Len(out) < Len(ids) THEN ErrPublish
                                        ELSE NoErr],
             maxIndex |-> IF out = <<>> THEN 0 ELSE w2.brokerIndex + Len(out),
             published |-> out]

\* ------------------------------------------------------------------ replica specification

\* The subcommands of a create-measurements-if-not-exists command: any tag
\* sets, and any fields with any types.
Subcommands ==
    {[Tags |-> ts, Fields |-> fs] :
        ts \in SUBSET Range(TagSets),
        fs \in UNION {[S -> DataTypes] : S \in SUBSET Range(FieldNames)}}

MeasurementCommands ==
    {createMeasurementsIfNotExistsCommand(d, [n \in {MeasurementNames[1]} |-> sc]) :
        d \in DbNames, sc \in Subcommands}

\* Those that create both series or both fields, or one of each.
ReplicaMeasurementCommands ==
    {c \in MeasurementCommands :
        LET sc == c.measurements[MeasurementNames[1]]
        IN /\ Cardinality(sc.Tags) + Cardinality(DOMAIN sc.Fields) \in {2, 4}
           /\ \A f \in DOMAIN sc.Fields : sc.Fields[f] = "number"}

\* The commands the two nodes of the replica specification apply.
ReplicaCommands ==
    {createDataNodeCommand(u) : u \in {"u1", "u2"}}
        \cup {createDatabaseCommand(n) : n \in DbNames}
        \cup {createRetentionPolicyCommand(d, n, 1, 1) : d \in DbNames, n \in PolicyNames}
        \cup {createShardGroupIfNotExistsCommand(d, n, 0) : d \in DbNames, n \in PolicyNames}
        \cup ReplicaMeasurementCommands

\* One message of the log, applied by both nodes (processor, lines
\* 2713-2758), each running its map ranges in an order of its own.
Replicate(cmd) ==
    /\ ~crashed
    /\ index < MaxReplicaIndex
    /\ \E o1 \in MapOrders, o2 \in MapOrders :
          \E r1 \in {apply([cat EXCEPT !.mapOrder = o1], Message(index + 1, cmd))},
             r2 \in {apply([replica EXCEPT !.mapOrder = o2], Message(index + 1, cmd))} :
              /\ delivered(cmd, r1, r1.panic \/ r2.panic)
              /\ cat' = r1.s
              /\ replica' = r2.s
    /\ UNCHANGED <<errors, procVars, write, raw, sweep, lateVars>>

\* Initialize on the first node, which takes id 1; the replica follows the
\* log with the id it has.
ReplicaInitialize ==
    /\ ~crashed
    /\ cat.id = 0
    /\ 1 \in DOMAIN cat.dataNodes
    /\ cat' = [cat EXCEPT !.id = 1]
    /\ UNCHANGED <<index, errors, crashed, last, prev, procVars, extVars>>

NextReplicas ==
    \/ \E cmd \in ReplicaCommands : Replicate(cmd)
    \/ ReplicaInitialize

SpecReplicas == InitCatalog /\ [][NextReplicas]_vars

\* ------------------------------------------------------------------ write specification

\* The cluster's set-up, in the order its commands are broadcast.
WriteSetupCommands ==
    <<createDataNodeCommand("u1"), createDatabaseCommand("db"),
      createRetentionPolicyCommand("db", "rp", 1, 1), createDataNodeCommand("u2")>>

SetupTypes ==
    {createDataNodeMessageType, createDatabaseMessageType,
     createRetentionPolicyMessageType}

setupCount(brokerLog) ==
    Cardinality({i \in DOMAIN brokerLog : brokerLog[i].type \in SetupTypes})

\* The points written: one measurement, two tag sets, one timestamp; a
\* number or a string for field v, and one point with a second field.
FirstPoint == Point("cpu", "a", 0, [k \in {"v"} |-> "number"])

Points ==
    {Point("cpu", tags, 0, [k \in {"v"} |-> typ]) :
         tags \in {"a", "b"}, typ \in DataTypes}
        \cup {Point("cpu", "a", 0, [k \in {"v", "w"} |-> "number"])}

\* The batches written: one point, or FirstPoint and one more.
Batches == {<<p>> : p \in Points} \cup {<<FirstPoint, q>> : q \in Points}

\* One set-up command broadcast to its end on the idle node.
WriteSetup ==
    /\ ~crashed
    /\ ~raw.active
    /\ cursor = Len(log)
    /\ setupCount(log) < Len(WriteSetupCommands)
    /\ \E w \in {broadcastRun(Run(cat, Len(log), index),
                               WriteSetupCommands[setupCount(log) + 1])} :
          /\ cat' = w.s
          /\ log' = log \o w.log
          /\ cursor' = w.brokerIndex
          /\ index' = w.index
          /\ crashed' = w.panic
    /\ UNCHANGED <<path, done, client, errors, rlock, procs, callers, last, prev,
                   applied, recorded, returns, syncCalls, extVars>>

\* Initialize on this node, which takes id 1.
WriteInitialize ==
    /\ ~crashed
    /\ cat.id = 0
    /\ 1 \in DOMAIN cat.dataNodes
    /\ cat' = [cat EXCEPT !.id = 1]
    /\ UNCHANGED <<index, errors, crashed, last, prev, procVars, extVars>>

\* WriteSeries, lines 1557-1649, called on the idle node and run to its
\* end, with a broker whose client fails the Publish after the n-th (NoVal:
\* none); write keeps the call and what came of it.
writeSeries(database, policy, points, strict, order, n) ==
    /\ ~crashed
    /\ ~raw.active
    /\ cursor = Len(log)
    /\ write.calls < MaxWrites
    /\ \E w1 \in {createMeasurementsIfNotExists(
                        [Run([cat EXCEPT !.mapOrder = order], Len(log), index)
                             EXCEPT !.publishes = n],
                        database, points)} :
       \E w2 \in {IF w1.panic \/ w1.err # NoErr THEN w1
                  ELSE createShardGroupsIfNotExists(w1, database, policy, points)} :
       \E rt \in {IF w2.panic \/ w2.err # NoErr
                  THEN [shardData |-> EmptyMap, err |-> NoErr, panic |-> FALSE]
                  ELSE routePoints(w2.s, database, policy, points, EmptyMap, strict)} :
       \E out \in {WriteSeriesRun(w1, w2, rt)} :
          /\ cat' = out.run.s
          /\ log' = log \o out.run.log
          /\ cursor' = out.run.brokerIndex - Len(out.published)
          /\ index' = out.run.index
          /\ crashed' = out.run.panic
          /\ write' = [called |-> TRUE, calls |-> write.calls + 1,
                       database |-> database, policy |-> policy,
                       points |-> points, before |-> cat, after |-> out.run.s,
                       command |-> measurementsCommand(cat, database, points).c,
                       broadcasts |-> SubSeq(out.run.log, 1,
                                             Len(out.run.log) - Len(out.published)),
                       published |-> out.published, maxIndex |-> out.maxIndex,
                       err |-> out.run.err, panic |-> out.run.panic,
                       publishes |-> n]
    /\ UNCHANGED <<path, done, client, errors, rlock, procs, callers, last, prev,
                   applied, recorded, returns, syncCalls, replica, raw, sweep, lateVars>>

\* WriteSeries with a broker that takes every message.
WriteSeries(database, policy, points, strict, order) ==
    writeSeries(database, policy, points, strict, order, NoVal)

\* WriteSeries with a broker whose client fails one Publish.
WriteSeriesPublishFails(database, policy, points, strict, order, n) ==
    writeSeries(database, policy, points, strict, order, n)

\* The total length of a batch of records, in bytes.
RECURSIVE batchLength(_)
batchLength(data) ==
    IF data = <<>> THEN 0
    ELSE pointHeaderSize + Head(data).payloadLength + batchLength(Tail(data))

\* The processor takes the next message of the log, a write-raw-series
\* message (lines 2713-2758). The broker delivers a topic to its
\* subscribers only. applyWriteRawSeries, lines 1654-1659: the shard.
RawDeliver ==
    /\ ~crashed
    /\ ~raw.active
    /\ cursor < Len(log)
    /\ cursor' = cursor + 1
    /\ LET m == log[cursor + 1]
       IN IF m.topic \notin cat.subs
          THEN UNCHANGED <<raw, index, errors>>
          ELSE IF m.topic \notin cat.shards
          THEN /\ index' = m.index
               /\ errors' = MapPut(errors, m.index, ErrShardNotFound)
               /\ raw' = raw
          ELSE /\ raw' = [active |-> TRUE, m |-> m, before |-> Len(cat.writes)]
               /\ UNCHANGED <<index, errors>>
    /\ UNCHANGED <<cat, path, done, client, rlock, log, procs, callers, crashed,
                   last, prev, applied, recorded, returns, syncCalls, replica,
                   write, sweep, lateVars>>

\* A payload that is no batch of records: no bytes at all.
MalformedData == <<>>

malformed(brokerLog) ==
    {i \in DOMAIN brokerLog :
         /\ brokerLog[i].type = writeRawSeriesMessageType
         /\ brokerLog[i].data = MalformedData}

\* A client of the broker publishes a write-raw-series message whose
\* payload cannot be decoded, on the topic of a shard.
PublishMalformed ==
    /\ ~crashed
    /\ Cardinality(malformed(log)) < MaxMalformed
    /\ \E topic \in cat.shards :
          log' = Append(log, RawMessage(Len(log) + 1, topic, MalformedData))
    /\ UNCHANGED <<cat, path, done, client, index, errors, rlock, cursor, procs,
                   callers, crashed, last, prev, applied, recorded, returns,
                   syncCalls, extVars>>

\* One turn of the loop of applyWriteRawSeries, lines 1664-1680: the header
\* is read from the front of m.Data, the payload is m.Data[pointHeaderSize:
\* payloadLength], and i, which the exit test reads, is never moved on.
\* The slices panic when m.Data is shorter than a header, and when
\* payloadLength is under pointHeaderSize or over the length of m.Data.
RawStep ==
    /\ ~crashed
    /\ raw.active
    /\ Len(cat.writes) < MaxRawWrites
    /\ LET data == raw.m.data
           i == 0
           rec == data[1]
       IN IF \/ batchLength(data) < pointHeaderSize
             \/ rec.payloadLength < pointHeaderSize
             \/ rec.payloadLength > batchLength(data)
          THEN /\ crashed' = TRUE
               /\ UNCHANGED <<cat, raw, index>>
          ELSE /\ cat' = [cat EXCEPT
                             !.shardsBySeriesID =
                                 MapPut(@, rec.seriesID,
                                        (IF rec.seriesID \in DOMAIN @
                                         THEN @[rec.seriesID] ELSE {})
                                        \cup {raw.m.topic}),
                             !.writes = Append(@, [shard |-> raw.m.topic,
                                                   index |-> raw.m.index,
                                                   seriesID |-> rec.seriesID,
                                                   timestamp |-> rec.timestamp,
                                                   from |-> pointHeaderSize,
                                                   to |-> rec.payloadLength])]
               /\ IF i > batchLength(data)
                  THEN /\ raw' = NoRaw
                       /\ index' = raw.m.index
                  ELSE UNCHANGED <<raw, index>>
               /\ UNCHANGED crashed
    /\ UNCHANGED <<path, done, client, errors, rlock, log, cursor, procs, callers,
                   last, prev, applied, recorded, returns, syncCalls, replica,
                   write, sweep, lateVars>>

NextWrite ==
    \/ WriteSetup
    \/ WriteInitialize
    \/ \E d \in DbNames, n \in PolicyNames, b \in Batches, strict \in BOOLEAN,
          o \in MapOrders : WriteSeries(d, n, b, strict, o)
    \/ RawDeliver
    \/ RawStep

SpecWrite == InitCatalog /\ [][NextWrite]_vars

\* The write specification with a broker whose client may fail a Publish.
NextPublish ==
    \/ WriteSetup
    \/ WriteInitialize
    \/ \E d \in DbNames, n \in PolicyNames, b \in Batches, k \in 0..MaxPublishes :
           WriteSeriesPublishFails(d, n, b, TRUE, "asc", k)
    \/ RawDeliver
    \/ RawStep

SpecPublish == InitCatalog /\ [][NextPublish]_vars

\* The write specification with a client that publishes payloads that
\* cannot be decoded.
NextMalformed ==
    \/ NextWrite
    \/ PublishMalformed

SpecMalformed == InitCatalog /\ [][NextMalformed]_vars

\* ------------------------------------------------------------------ retention specification

\* The cluster's set-up, in the order its commands are broadcast.
RetentionSetupCommands ==
    <<createDataNodeCommand("u1"), createDataNodeCommand("u2"),
      createDatabaseCommand("db"), createRetentionPolicyCommand("db", "rp", 1, 1)>>

\* The groups of the catalog s whose window ended more than the policy's
\* duration before now, and the others.
agedOut(s, now) ==
    UNION {UNION {{g.ID : g \in {h \in Range(s.databases[d].policies[n].shardGroups) :
                                    h.EndTime + s.databases[d].policies[n].Duration < now}} :
                  n \in DOMAIN s.databases[d].policies} :
           d \in DOMAIN s.databases}

notAgedOut(s, now) ==
    UNION {UNION {{g.ID : g \in {h \in Range(s.databases[d].policies[n].shardGroups) :
                                    h.EndTime + s.databases[d].policies[n].Duration >= now}} :
                  n \in DOMAIN s.databases[d].policies} :
           d \in DOMAIN s.databases}

\* A test that takes a group as soon as its window has ended.
dueAtEndTime(g, rp, now) == g.EndTime < now

\* Line 340: g.EndTime.Add(rp.Duration).Before(time.Now()).
dueForDeletion(g, rp, now) == g.EndTime + rp.Duration < now

\* An enforcement run under way: the operation, the groups whose deletion
\* it has requested and the error of each request.
Sweep(w) == [run |-> w, requested |-> <<>>, errs |-> <<>>]

\* Lines 339-347: the groups of one policy, as the range found them; the
\* error of a request is logged and the loop goes on. fails holds the
\* groups whose delete finds the metastore failing.
RECURSIVE sweepGroups(_, _, _, _, _, _)
sweepGroups(sw, database, policy, groups, now, fails) ==
    IF groups = <<>> THEN sw
    ELSE LET g == Head(groups)
             rp == sw.run.s.databases[database].policies[policy]
             w1 == broadcastRun([sw.run EXCEPT !.s.metaFail = (g.ID \in fails)],
                                deleteShardGroupCommand(database, policy, g.ID))
         IN IF ~dueForDeletion(g, rp, now)
            THEN sweepGroups(sw, database, policy, Tail(groups), now, fails)
            ELSE sweepGroups([run |-> [w1 EXCEPT !.err = NoErr],
                              requested |-> Append(sw.requested, g.ID),
                              errs |-> Append(sw.errs, w1.err)],
                             database, policy, Tail(groups), now, fails)

\* Lines 337-338: the policies of the databases, in the order of the ranges.
sweepTargets(s) ==
    LET pairs == UNION {{<<d, n>> : n \in DOMAIN s.databases[d].policies} :
                            d \in DOMAIN s.databases}
    IN CHOOSE q \in [1..Cardinality(pairs) -> pairs] : Range(q) = pairs

RECURSIVE sweepPolicies(_, _, _, _)
sweepPolicies(sw, targets, now, fails) ==
    IF targets = <<>> THEN sw
    ELSE LET d == Head(targets)[1]
             n == Head(targets)[2]
         IN sweepPolicies(
                sweepGroups(sw, d, n, sw.run.s.databases[d].policies[n].shardGroups,
                            now, fails),
                Tail(targets), now, fails)

\* One broadcast to its end on the idle node, the metastore failing the
\* handler's update or not. The broker's last index is the node's: the log
\* is not kept.
retentionBroadcast(cmd, fail) ==
    /\ ~crashed
    /\ index <= MaxRetentionIndex
    /\ \E w \in {broadcastRun(Run([cat EXCEPT !.metaFail = fail], index, index),
                               cmd)} :
          /\ prev' = cat
          /\ last' = [m |-> w.log[1], err |-> w.err]
          /\ cat' = [w.s EXCEPT !.metaFail = FALSE]
          /\ index' = w.index
          /\ crashed' = w.panic
    /\ UNCHANGED <<errors, procVars, extVars>>

\* The set-up: the node is initialized once its own data node is made.
RetentionSetup ==
    /\ index < Len(RetentionSetupCommands)
    /\ index >= 1 => cat.id # 0
    /\ retentionBroadcast(RetentionSetupCommands[index + 1], FALSE)

RetentionInitialize ==
    /\ ~crashed
    /\ index = 1
    /\ cat.id = 0
    /\ 1 \in DOMAIN cat.dataNodes
    /\ cat' = [cat EXCEPT !.id = 1]
    /\ UNCHANGED <<index, errors, crashed, last, prev, procVars, extVars>>

\* CreateShardGroupIfNotExists, line 802, and DeleteShardGroup, lines
\* 936-940, once the cluster is set up.
RetentionCreateShardGroup(database, policy, timestamp) ==
    /\ index >= Len(RetentionSetupCommands)
    /\ retentionBroadcast(
           createShardGroupIfNotExistsCommand(database, policy, timestamp), FALSE)

DeleteShardGroup(database, policy, id, fail) ==
    /\ index >= Len(RetentionSetupCommands)
    /\ retentionBroadcast(deleteShardGroupCommand(database, policy, id), fail)

\* EnforceRetentionPolicies, lines 334-351, run to its end at time now;
\* the metastore fails the deletes of the groups of fails.
EnforceRetentionPolicies(now) ==
    /\ ~crashed
    /\ index >= Len(RetentionSetupCommands)
    /\ index <= MaxRetentionIndex
    /\ sweep.ran => sweep.now <= now
    /\ \E fails \in SUBSET agedOut(cat, now) :
       \E sw \in {sweepPolicies(Sweep(Run(cat, index, index)), sweepTargets(cat),
                                 now, fails)} :
          /\ cat' = [sw.run.s EXCEPT !.metaFail = FALSE]
          /\ index' = sw.run.index
          /\ crashed' = sw.run.panic
          /\ sweep' = [ran |-> TRUE, now |-> now, before |-> cat,
                       requested |-> sw.requested, errs |-> sw.errs]
    /\ last' = NoLast
    /\ prev' = cat
    /\ UNCHANGED <<errors, procVars, replica, write, raw, lateVars>>

NextRetention ==
    \/ RetentionSetup
    \/ RetentionInitialize
    \/ \E d \in DbNames, n \in PolicyNames, ts \in Timestamps :
          RetentionCreateShardGroup(d, n, ts)
    \/ \E d \in DbNames, n \in PolicyNames, id \in 1..(MaxTime + 1),
          fail \in BOOLEAN : DeleteShardGroup(d, n, id, fail)
    \/ \E now \in 0..MaxNow : EnforceRetentionPolicies(now)

SpecRetention == InitCatalog /\ [][NextRetention]_vars

\* ------------------------------------------------------------------ query specification

\* The errors ExecuteQuery and its helpers return: ErrNotExecuted,
\* ErrAuthorize, those normalizeMeasurement and planSelectStatement build
\* with fmt.Errorf, and the planner's.
ErrNotExecuted == "not executed"
ErrAuthorize == "authorize"
ErrInvalidMeasurement == "invalid measurement"
ErrDatabaseNotFoundN == "database not found (normalize)"
ErrDefaultPolicyNotSet == "default retention policy not set"
ErrPolicyNotExist == "retention policy does not exist"
ErrMeasurementNotExist == "measurement does not exist"
ErrPlan == "plan"

\* The privileges, in their order: User.Authorize compares them with >=.
Privileges == 1..MaxPrivilege

\* A required privilege of a statement; Name is "" for the database of the
\* call.
ExecutionPrivilege(name, privilege) == [Name |-> name, Privilege |-> privilege]

\* A statement of a query: its kind, the database it names, the segments of
\* the measurement it reads, whether its one field is a wildcard, what the
\* planner and the executor return for it, and what its RequiredPrivileges
\* returns.
Statement(kind, name, source, wildcard, plan, privs) ==
    [kind |-> kind, name |-> name, source |-> source, wildcard |-> wildcard,
     plan |-> plan, privs |-> privs]

SelectStatement(source, plan) ==
    Statement("select", "", source, TRUE, plan,
              <<ExecutionPrivilege(IF Len(source) = 3 THEN source[1] ELSE "", 1)>>)

CreateDatabaseStatement(name) ==
    Statement("createDatabase", name, <<>>, FALSE, NoErr,
              <<ExecutionPrivilege("", MaxPrivilege)>>)

DropDatabaseStatement(name) ==
    Statement("dropDatabase", name, <<>>, FALSE, NoErr,
              <<ExecutionPrivilege("", MaxPrivilege)>>)

ShowDatabasesStatement ==
    Statement("showDatabases", "", <<>>, FALSE, NoErr,
              <<ExecutionPrivilege("", MaxPrivilege)>>)

DropSeriesStatement ==
    Statement("dropSeries", "", <<>>, FALSE, NoErr,
              <<ExecutionPrivilege("", 2)>>)

\* A user: nil, or its name, admin flag and privileges by database.
User(name, admin, privileges) ==
    [nil |-> FALSE, Name |-> name, Admin |-> admin, Privileges |-> privileges]

NoUser == [nil |-> TRUE, Name |-> "", Admin |-> FALSE, Privileges |-> EmptyMap]

\* A result of a statement; results.Results[i] before the statement ran.
QueryResult(err, rows) == [Err |-> err, Rows |-> rows]

NilResult == QueryResult("nil", {})

\* User.Authorize, lines 2964-2967.
userAuthorize(u, privilege, database) ==
    \/ database \in DOMAIN u.Privileges /\ u.Privileges[database] >= privilege
    \/ u.Admin

\* The database of a required privilege, lines 2921-2924.
privilegeDatabase(p, database) == IF p.Name = "" THEN database ELSE p.Name

\* Authorize with the nil user let through.
AuthorizeNilUser(u, stmts, database) ==
    IF u.nil \/ u.Admin THEN NoErr
    ELSE IF \E i \in 1..Len(stmts) : \E j \in 1..Len(stmts[i].privs) :
               ~userAuthorize(u, stmts[i].privs[j].Privilege,
                              privilegeDatabase(stmts[i].privs[j], database))
         THEN ErrAuthorize
    ELSE NoErr

\* Server.Authorize, lines 2897-2942.
Authorize(u, stmts, database) ==
    IF u.nil THEN ErrAuthorize
    ELSE IF u.Admin THEN NoErr
    ELSE IF \E i \in 1..Len(stmts) : \E j \in 1..Len(stmts[i].privs) :
               ~userAuthorize(u, stmts[i].privs[j].Privilege,
                              privilegeDatabase(stmts[i].privs[j], database))
         THEN ErrAuthorize
    ELSE NoErr

\* normalizeMeasurement, lines 2646-2690, on the segments of the name: the
\* three segments and the error.
normalizeMeasurement(s, segments, defaultDatabase) ==
    LET n == Len(segments)
        three == IF n = 1 THEN <<"", "">> \o segments
                 ELSE IF n = 2 THEN <<"">> \o segments
                 ELSE segments
        dbname == IF three[1] = "" THEN defaultDatabase ELSE three[1]
        db == s.databases[dbname]
        policy == IF three[2] = "" THEN db.defaultRetentionPolicy ELSE three[2]
    IN IF n \notin 1..3 THEN [segments |-> segments, err |-> ErrInvalidMeasurement]
       ELSE IF dbname \notin DOMAIN s.databases
            THEN [segments |-> segments, err |-> ErrDatabaseNotFoundN]
       ELSE IF policy = ""
            THEN [segments |-> segments, err |-> ErrDefaultPolicyNotSet]
       ELSE IF policy \notin DOMAIN db.policies
            THEN [segments |-> segments, err |-> ErrPolicyNotExist]
       ELSE [segments |-> <<dbname, policy, three[3]>>, err |-> NoErr]

\* NormalizeStatement, lines 2597-2637: the measurement of the statement,
\* when it has one, takes its three segments.
NormalizeStatement(s, stmt, defaultDatabase) ==
    IF stmt.source = <<>> THEN [stmt |-> stmt, err |-> NoErr]
    ELSE LET r == normalizeMeasurement(s, stmt.source, defaultDatabase)
         IN [stmt |-> [stmt EXCEPT !.source = r.segments], err |-> r.err]

\* planSelectStatement and executeSelectStatement, lines 2001-2063: a
\* wildcard needs its measurement; the planner and the executor return what
\* they return.
executeSelectStatement(s, stmt) ==
    LET db == s.databases[stmt.source[1]]
    IN IF stmt.wildcard /\ stmt.source[3] \notin DOMAIN db.measurements
       THEN QueryResult(ErrMeasurementNotExist, {})
       ELSE IF stmt.plan # NoErr THEN QueryResult(stmt.plan, {})
       ELSE QueryResult(NoErr, {stmt.source})

\* The switch of lines 1934-1981 for the kinds that return a result: the
\* run after the statement and its result.
executeStatement(w, stmt) ==
    CASE stmt.kind = "select" ->
           [run |-> w, res |-> executeSelectStatement(w.s, stmt)]
      [] stmt.kind = "createDatabase" ->
           LET r == broadcastRun(w, createDatabaseCommand(stmt.name))
           IN [run |-> r, res |-> QueryResult(r.err, {})]
      [] stmt.kind = "dropDatabase" ->
           LET r == broadcastRun(w, deleteDatabaseCommand(stmt.name))
           IN [run |-> r, res |-> QueryResult(r.err, {})]
      [] stmt.kind = "showDatabases" ->
           [run |-> w, res |-> QueryResult(NoErr, DOMAIN w.s.databases)]

\* The kinds whose case is continue, lines 1949-1950 and 1975-1976.
Skipped == {"dropSeries", "dropContinuousQuery"}

\* The one element of a set of one.
Only(S) == CHOOSE x \in S : TRUE

\* One turn of the loop of lines 1926-1988, for statement i. q holds the
\* run, the results so far, the statements normalized and executed, the
\* statement that broke the loop (0: none), and for each message of the
\* run's log the statement that published it.
executeOne(q, stmt, database, i) ==
    Only({IF n.err # NoErr
          THEN [q EXCEPT !.results[i] = QueryResult(n.err, {}),
                         !.normalized = Append(@, i),
                         !.broke = i]
          ELSE IF stmt.kind \in Skipped
               THEN [q EXCEPT !.normalized = Append(@, i)]
          ELSE Only({[q EXCEPT !.run = x.run,
                               !.results[i] = x.res,
                               !.normalized = Append(@, i),
                               !.executed = Append(@, i),
                               !.by = @ \o [k \in 1..(Len(x.run.log) - Len(q.run.log))
                                                |-> i],
                               !.broke = IF x.res.Err # NoErr THEN i ELSE 0] :
                     x \in {executeStatement(q.run, n.stmt)}}) :
          n \in {NormalizeStatement(q.run.s, stmt, database)}})

\* The loop from statement i on.
RECURSIVE executeStatements(_, _, _, _)
executeStatements(q, stmts, database, i) ==
    IF i > Len(stmts) THEN q
    ELSE Only({IF next.broke # 0 THEN next
               ELSE executeStatements(next, stmts, database, i + 1) :
               next \in {executeOne(q, stmts[i], database, i)}})

\* ExecuteQuery, lines 1914-1998, on run w.
executeQuery(w, authenticationEnabled, stmts, database, user) ==
    LET err == IF authenticationEnabled THEN Authorize(user, stmts, database)
               ELSE NoErr
    IN IF err # NoErr
       THEN [run |-> w, Err |-> err, Results |-> <<>>, normalized |-> <<>>,
             executed |-> <<>>, broke |-> 0, by |-> <<>>]
       ELSE Only({[run |-> q.run, Err |-> NoErr,
                   Results |-> [i \in 1..Len(stmts) |->
                                   IF q.results[i] = NilResult
                                   THEN QueryResult(ErrNotExecuted, {})
                                   ELSE q.results[i]],
                   normalized |-> q.normalized, executed |-> q.executed,
                   broke |-> q.broke, by |-> q.by] :
                  q \in {executeStatements(
                             [run |-> w,
                              results |-> [i \in 1..Len(stmts) |-> NilResult],
                              normalized |-> <<>>, executed |-> <<>>, broke |-> 0,
                              by |-> <<>>],
                             stmts, database, 1)}})

\* The cluster's set-up: a database with a policy and a measurement.
QuerySetupCommands ==
    <<createDatabaseCommand("db"),
      createRetentionPolicyCommand("db", "rp", 1, 1),
      createMeasurementsIfNotExistsCommand(
          "db", [n \in {"cpu"} |-> [Tags |-> {"a"},
                                    Fields |-> [f \in {"v"} |-> "number"]]])>>

\* The statements submitted: a select that normalizes, one whose database
\* has no default policy, one whose planner fails, and the others on a
\* second database.
Statements ==
    {SelectStatement(<<"db", "rp", "cpu">>, NoErr),
     SelectStatement(<<"cpu">>, NoErr),
     SelectStatement(<<"db", "rp", "cpu">>, ErrPlan),
     CreateDatabaseStatement("db2"),
     DropDatabaseStatement("db2"),
     ShowDatabasesStatement,
     DropSeriesStatement}

Queries == UNION {[1..n -> Statements] : n \in 1..MaxStatements}

\* The users: none, an admin, and users with no privilege, the lowest and
\* the highest on database db.
Users ==
    {NoUser, User("root", TRUE, EmptyMap), User("u", FALSE, EmptyMap)}
        \cup {User("u", FALSE, [d \in {"db"} |-> p]) : p \in {1, MaxPrivilege}}

\* One set-up command broadcast to its end.
QuerySetup ==
    /\ ~crashed
    /\ Len(log) < Len(QuerySetupCommands)
    /\ ~query.called
    /\ \E w \in {broadcastRun(Run(cat, Len(log), index),
                               QuerySetupCommands[Len(log) + 1])} :
          /\ cat' = w.s
          /\ log' = log \o w.log
          /\ cursor' = w.brokerIndex
          /\ index' = w.index
          /\ crashed' = w.panic
    /\ UNCHANGED <<path, done, client, errors, rlock, procs, callers, last, prev,
                   applied, recorded, returns, syncCalls, extVars>>

\* ExecuteQuery called once on the idle node and run to its end; query
\* keeps the call and what came of it.
ExecuteQuery(authenticationEnabled, stmts, database, user) ==
    /\ ~crashed
    /\ ~query.called
    /\ \E out \in {executeQuery(Run(cat, Len(log), index), authenticationEnabled,
                                stmts, database, user)} :
          /\ cat' = out.run.s
          /\ log' = log \o out.run.log
          /\ cursor' = out.run.brokerIndex
          /\ index' = out.run.index
          /\ crashed' = out.run.panic
          /\ query' = [called |-> TRUE,
                       authenticationEnabled |-> authenticationEnabled,
                       stmts |-> stmts, database |-> database, user |-> user,
                       before |-> cat, after |-> out.run.s,
                       published |-> out.run.log, by |-> out.by,
                       Err |-> out.Err, Results |-> out.Results,
                       normalized |-> out.normalized, executed |-> out.executed,
                       broke |-> out.broke]
    /\ UNCHANGED <<path, done, client, errors, rlock, procs, callers, last, prev,
                   applied, recorded, returns, syncCalls, replica, write, raw, sweep,
                   rtask, lk, cqs, opens>>

NextQuery ==
    \/ QuerySetup
    \/ \E a \in BOOLEAN, q \in Queries, d \in {"", "db"}, u \in Users :
           ExecuteQuery(a, q, d, u)

SpecQuery == InitCatalog /\ [][NextQuery]_vars

\* ------------------------------------------------------------------ policy specification

\* The names of the policies of the policy specification.
RenameNames == {"rp", "rq"}

\* UpdateRetentionPolicy, lines 1338-1342, with a new name only.
RenameRetentionPolicy(database, name, newName) ==
    /\ broadcast(updateRetentionPolicyCommand(database, name, newName, NoVal, NoVal))
    /\ UNCHANGED <<errors, procVars, extVars>>

\* DeleteRetentionPolicy, lines 1397-1401.
DeleteRetentionPolicy(database, name) ==
    /\ broadcast(deleteRetentionPolicyCommand(database, name))
    /\ UNCHANGED <<errors, procVars, extVars>>

\* SetDefaultRetentionPolicy, lines 1437-1441.
SetDefaultRetentionPolicy(database, name) ==
    /\ broadcast(setDefaultRetentionPolicyCommand(database, name))
    /\ UNCHANGED <<errors, procVars, extVars>>

NextPolicies ==
    \/ \E n \in DbNames : CreateDatabase(n)
    \/ \E d \in DbNames, n \in RenameNames, dur \in 1..MaxDuration :
           CreateRetentionPolicy(d, n, dur, 1)
    \/ \E d \in DbNames, n \in RenameNames, new \in RenameNames :
           RenameRetentionPolicy(d, n, new)
    \/ \E d \in DbNames, n \in RenameNames : DeleteRetentionPolicy(d, n)
    \/ \E d \in DbNames, n \in RenameNames : SetDefaultRetentionPolicy(d, n)

SpecPolicies == InitCatalog /\ [][NextPolicies]_vars

\* ------------------------------------------------------------------ continuous-query specification

\* d.continuousQueries of the one database, in the order of the list.
CQNames == <<"cq1", "cq2">>

\* The goroutines started so far.
started == {g \in DOMAIN cqs : cqs[g].state # "none"}

\* Line 3108 calls runContinuousQuery(c) with the loop variable, not with
\* the goroutine's argument: a goroutine started for the i-th query reads
\* what the variable holds when it gets to run, that query or a later one.
captured(i) == {CQNames[j] : j \in i..Len(CQNames)}

\* RunContinuousQueries, lines 3096-3115, under the read lock: a goroutine
\* is started for each query that shouldRunContinuousQuery finds due at the
\* time of the tick.
RunContinuousQueries ==
    /\ ~crashed
    /\ \E due \in SUBSET DOMAIN CQNames :
          /\ due # {}
          /\ Cardinality(started) + Cardinality(due) <= MaxRuns
          /\ \E targets \in [due -> Range(CQNames)] :
                /\ \A i \in due : targets[i] \in captured(i)
                /\ LET n == Cardinality(started)
                       order == SortedSeq(due)
                   IN cqs' = [g \in DOMAIN cqs |->
                                 IF g \in (n + 1)..(n + Len(order))
                                 THEN [state |-> "waiting", target |-> targets[order[g - n]]]
                                 ELSE cqs[g]]
    /\ UNCHANGED <<cat, path, done, client, index, errors, rlock, log, cursor, procs,
                   callers, crashed, last, prev, applied, recorded, returns, syncCalls,
                   replica, write, raw, sweep, rtask, lk, query, opens>>

\* The goroutine takes a lock that another holds.
CQLockNoMutex(g) ==
    /\ cqs[g].state = "waiting"
    /\ cqs' = [cqs EXCEPT ![g].state = "running"]
    /\ UNCHANGED <<cat, path, done, client, index, errors, rlock, log, cursor, procs,
                   callers, crashed, last, prev, applied, recorded, returns, syncCalls,
                   replica, write, raw, sweep, rtask, lk, query, opens>>

\* runContinuousQuery, line 3149: cq.mu.Lock() of the query the goroutine
\* runs.
CQLock(g) ==
    /\ cqs[g].state = "waiting"
    /\ \A h \in DOMAIN cqs :
           cqs[h].state = "running" => cqs[h].target # cqs[g].target
    /\ cqs' = [cqs EXCEPT ![g].state = "running"]
    /\ UNCHANGED <<cat, path, done, client, index, errors, rlock, log, cursor, procs,
                   callers, crashed, last, prev, applied, recorded, returns, syncCalls,
                   replica, write, raw, sweep, rtask, lk, query, opens>>

\* Lines 3150-3192: the query has run and the deferred Unlock releases it.
CQUnlock(g) ==
    /\ cqs[g].state = "running"
    /\ cqs' = [cqs EXCEPT ![g].state = "done"]
    /\ UNCHANGED <<cat, path, done, client, index, errors, rlock, log, cursor, procs,
                   callers, crashed, last, prev, applied, recorded, returns, syncCalls,
                   replica, write, raw, sweep, rtask, lk, query, opens>>

NextCQ ==
    \/ RunContinuousQueries
    \/ \E g \in 1..MaxRuns : CQLock(g)
    \/ \E g \in 1..MaxRuns : CQUnlock(g)

SpecCQ == InitCatalog /\ [][NextCQ]_vars

\* ------------------------------------------------------------------ lock specification

\* One step of an operation, in the order the code takes them: what it
\* does to s.mu (Lock, Unlock, RLock, RUnlock), a read or a write of a
\* field of the server, a Publish to the broker, or a wait (the call of
\* Sync, the sleep of its loop); and the line of server.go that does it.
Step(do, what, line) == [do |-> do, what |-> what, line |-> line]

\* Sync, lines 421-438: one turn of the loop that finds s.index below the
\* index and sleeps, and the turn that finds it reached, reads the error
\* and deletes it.
SyncSteps ==
    <<Step("RLock", "mu", 424), Step("read", "index", 425),
      Step("RUnlock", "mu", 433), Step("wait", "sleep", 436),
      Step("RLock", "mu", 424), Step("read", "index", 425),
      Step("read", "errors", 426), Step("write", "errors", 428),
      Step("RUnlock", "mu", 430)>>

\* broadcast, lines 395-417.
broadcastSteps ==
    <<Step("read", "client", 408), Step("publish", "broker", 408),
      Step("wait", "Sync", 414)>> \o SyncSteps

\* createMeasurementsIfNotExists with the read lock deferred to the end of
\* the function, not of the local function.
createMeasurementsHoldingLock ==
    <<Step("RLock", "mu", 1701), Step("read", "databases", 1704),
      Step("read", "measurements", 1710)>> \o broadcastSteps
        \o <<Step("RUnlock", "mu", 1702)>>

\* createMeasurementsIfNotExists, lines 1696-1756: the local function holds
\* the read lock; the broadcast comes after it has returned.
createMeasurementsSteps ==
    <<Step("RLock", "mu", 1701), Step("read", "databases", 1704),
      Step("read", "measurements", 1710), Step("RUnlock", "mu", 1702)>>
        \o broadcastSteps

\* Server.shardGroupByTimestamp, lines 771-777: no lock.
shardGroupByTimestampSteps ==
    <<Step("read", "databases", 772), Step("read", "shardGroups", 776)>>

\* The operations a caller runs, each along the path that goes through
\* the whole function.
Operations ==
    [Open |->
         <<Step("read", "path", 195), Step("write", "path", 202),
           Step("write", "id", 265), Step("write", "dataNodes", 268),
           Step("write", "databases", 274), Step("write", "store", 294),
           Step("write", "users", 303)>>,
     Close |->
         <<Step("Lock", "mu", 233), Step("read", "path", 236),
           Step("write", "path", 245), Step("read", "path", 369),
           Step("read", "shards", 254), Step("write", "store", 255),
           Step("Unlock", "mu", 234)>>,
     SetClient |->
         <<Step("Lock", "mu", 362), Step("read", "path", 369),
           Step("write", "done", 376), Step("write", "client", 380),
           Step("write", "done", 385), Step("Unlock", "mu", 363)>>,
     Initialize |->
         broadcastSteps
             \o <<Step("RLock", "mu", 583), Step("read", "dataNodes", 585),
                  Step("RUnlock", "mu", 584), Step("write", "id", 461)>>,
     CreateDatabase |-> broadcastSteps,
     WriteSeries |->
         createMeasurementsSteps
             \o shardGroupByTimestampSteps \o broadcastSteps
             \o <<Step("RLock", "mu", 1584), Step("read", "databases", 1586),
                  Step("read", "measurements", 1590), Step("RUnlock", "mu", 1585)>>
             \o shardGroupByTimestampSteps
             \o <<Step("read", "shardGroups", 1606), Step("RLock", "mu", 1609),
                  Step("read", "measurements", 1610), Step("RUnlock", "mu", 1611),
                  Step("read", "client", 1635), Step("publish", "broker", 1635)>>,
     EnforceRetentionPolicies |->
         <<Step("read", "databases", 338), Step("read", "policies", 339),
           Step("read", "shardGroups", 340)>> \o broadcastSteps,
     AdminUserExists |-> <<Step("read", "users", 1026)>>,
     ReadSeries |->
         <<Step("RLock", "mu", 1844), Step("read", "databases", 1848),
           Step("read", "measurements", 1854), Step("read", "policies", 1867)>>
             \o shardGroupByTimestampSteps
             \o <<Step("read", "store", 1886), Step("RUnlock", "mu", 1845)>>,
     RunContinuousQueries |->
         <<Step("RLock", "mu", 3097), Step("read", "databases", 3100),
           Step("read", "continuousQueries", 3101),
           Step("write", "continuousQueries", 3105),
           Step("RUnlock", "mu", 3098)>>]

\* The apply handlers, each along the path that applies the command.
Handlers ==
    [applyCreateDataNode |->
         <<Step("Lock", "mu", 615), Step("read", "dataNodes", 625),
           Step("write", "dataNodes", 642), Step("Unlock", "mu", 616)>>,
     applyCreateDatabase |->
         <<Step("Lock", "mu", 711), Step("read", "databases", 713),
           Step("write", "databases", 725), Step("Unlock", "mu", 712)>>,
     applyCreateShardGroupIfNotExists |->
         <<Step("Lock", "mu", 812), Step("read", "databases", 816),
           Step("read", "policies", 822), Step("read", "shardGroups", 828),
           Step("read", "dataNodes", 839), Step("write", "shardGroups", 885),
           Step("read", "id", 896), Step("write", "store", 901),
           Step("write", "shards", 908), Step("Unlock", "mu", 813)>>,
     applyDeleteShardGroup |->
         <<Step("Lock", "mu", 947), Step("read", "databases", 951),
           Step("read", "policies", 957), Step("read", "shardGroups", 964),
           Step("read", "id", 971), Step("write", "store", 976),
           Step("write", "shardGroups", 985), Step("Unlock", "mu", 948)>>,
     applyCreateUser |->
         <<Step("Lock", "mu", 1067), Step("read", "users", 1073),
           Step("write", "users", 1096), Step("Unlock", "mu", 1068)>>,
     applyCreateMeasurementsIfNotExists |->
         <<Step("Lock", "mu", 1763), Step("read", "databases", 1766),
           Step("write", "measurements", 1787), Step("Unlock", "mu", 1764)>>,
     applyWriteRawSeries |->
         <<Step("RLock", "mu", 765), Step("read", "shards", 767),
           Step("RUnlock", "mu", 766), Step("read", "shardsBySeriesID", 1686),
           Step("write", "shardsBySeriesID", 1691), Step("write", "store", 1673)>>]

\* One turn of the processor, lines 2698-2758: the opened() test, the
\* handler, then the index and the error under the write lock.
processorSteps(handler) ==
    <<Step("read", "path", 2709)>> \o Handlers[handler]
        \o <<Step("Lock", "mu", 2753), Step("write", "index", 2754),
             Step("write", "errors", 2756), Step("Unlock", "mu", 2758)>>

\* What each goroutine can run, and the steps of what it runs.
opsOf(t) == IF t = "processor" THEN DOMAIN Handlers ELSE DOMAIN Operations

stepsOf(t, op) == IF t = "processor" THEN processorSteps(op) ELSE Operations[op]

\* The step a goroutine is about to take.
pending(t) == stepsOf(t, lk[t].op)[lk[t].pc]

running(t) == lk[t].op # ""

\* The goroutine has taken its step.
advance(t, holds) ==
    IF lk[t].pc = Len(stepsOf(t, lk[t].op)) THEN [lk EXCEPT ![t] = Idle]
    ELSE [lk EXCEPT ![t].pc = @ + 1, ![t].holds = holds]

lockUnchanged ==
    UNCHANGED <<cat, path, done, client, index, errors, rlock, log, cursor, procs,
                callers, crashed, last, prev, applied, recorded, returns, syncCalls,
                replica, write, raw, sweep, rtask, query, cqs, opens>>

\* A goroutine starts an operation (the processor: takes a message).
OpStart(t, op) ==
    /\ ~running(t)
    /\ op \in opsOf(t)
    /\ lk' = [lk EXCEPT ![t] = [op |-> op, pc |-> 1, holds |-> ""]]
    /\ lockUnchanged

\* sync.RWMutex: Lock waits until no goroutine holds the lock; RLock waits
\* until none holds it for writing.
OpAcquire(t) ==
    /\ running(t)
    /\ pending(t).do \in {"Lock", "RLock"}
    /\ \A u \in LockThreads \ {t} :
           lk[u].holds # "w" /\ (pending(t).do = "Lock" => lk[u].holds = "")
    /\ lk' = advance(t, IF pending(t).do = "Lock" THEN "w" ELSE "r")
    /\ lockUnchanged

OpRelease(t) ==
    /\ running(t)
    /\ pending(t).do \in {"Unlock", "RUnlock"}
    /\ lk' = advance(t, "")
    /\ lockUnchanged

\* A read or a write of a field of the server.
OpAccess(t) ==
    /\ running(t)
    /\ pending(t).do \in {"read", "write"}
    /\ lk' = advance(t, lk[t].holds)
    /\ lockUnchanged

\* A Publish, or a wait for the processor.
OpPublish(t) ==
    /\ running(t)
    /\ pending(t).do \in {"publish", "wait"}
    /\ lk' = advance(t, lk[t].holds)
    /\ lockUnchanged

NextLocks ==
    \/ \E t \in LockThreads, op \in DOMAIN Operations \cup DOMAIN Handlers :
           OpStart(t, op)
    \/ \E t \in LockThreads : OpAcquire(t)
    \/ \E t \in LockThreads : OpRelease(t)
    \/ \E t \in LockThreads : OpAccess(t)
    \/ \E t \in LockThreads : OpPublish(t)

SpecLocks == InitCatalog /\ [][NextLocks]_vars

\* ------------------------------------------------------------------ reopen specification

\* The node of the retention specification, closed and opened again between
\* its operations: Open loads the catalog that the operations left.
NextReopen ==
    \/ opened /\ RetentionSetup
    \/ opened /\ RetentionInitialize
    \/ opened /\ \E d \in DbNames, n \in PolicyNames, ts \in 0..MaxTime :
                     RetentionCreateShardGroup(d, n, ts)
    \/ opened /\ \E d \in DbNames, n \in PolicyNames, id \in 1..MaxRetentionIndex :
                     DeleteShardGroup(d, n, id, FALSE)
    \/ Close
    \/ Open

SpecReopen == InitCatalog /\ [][NextReopen]_vars

\* ------------------------------------------------------------------ reload specification

\* The error of a write to a shard whose store is closed.
ErrStoreClosed == "store closed"

\* A client of the broker publishes a write-raw-series message of one
\* record (of two fields: its payload is longer than a header) on the topic
\* of a shard of the catalog, with the next index.
PublishRaw ==
    /\ ~crashed
    /\ ~raw.active
    /\ cursor = Len(log)
    /\ Len(log) < MaxWrites
    /\ \E topic \in allShardIDs(cat) :
          log' = Append(log, RawMessage(index + 1, topic,
                                        <<pointRecord(1, 0, Range(FieldNames))>>))
    /\ UNCHANGED <<cat, path, done, client, index, errors, rlock, cursor, procs,
                   callers, crashed, last, prev, applied, recorded, returns,
                   syncCalls, extVars>>

\* applyWriteRawSeries, lines 1670-1675, with a shard of s.shards that load
\* has replaced in the catalog: the shard is added to the lookup and the
\* write goes to its closed store, which returns an error or panics.
RawStale ==
    /\ ~crashed
    /\ raw.active
    /\ raw.m.topic \in cat.stale
    /\ cat' = [cat EXCEPT !.shardsBySeriesID =
                   MapPut(@, raw.m.data[1].seriesID,
                          (IF raw.m.data[1].seriesID \in DOMAIN @
                           THEN @[raw.m.data[1].seriesID] ELSE {})
                          \cup {raw.m.topic})]
    /\ \/ /\ crashed' = TRUE
          /\ UNCHANGED <<raw, index, errors>>
       \/ /\ raw' = NoRaw
          /\ index' = raw.m.index
          /\ errors' = MapPut(errors, raw.m.index, ErrStoreClosed)
          /\ UNCHANGED crashed
    /\ UNCHANGED <<path, done, client, rlock, log, cursor, procs, callers,
                   last, prev, applied, recorded, returns, syncCalls, replica,
                   write, sweep, lateVars>>

\* The node of the reopen specification, closed and opened again once it is
\* set up, with write-raw-series messages on the topics of its shards; the
\* broker holds one message at a time.
idle == ~raw.active /\ cursor = Len(log)

NextReload ==
    \/ opened /\ idle /\ RetentionSetup
    \/ opened /\ idle /\ RetentionInitialize
    \/ opened /\ idle /\ \E d \in DbNames, n \in PolicyNames, ts \in 0..MaxTime :
                              RetentionCreateShardGroup(d, n, ts)
    \/ idle /\ index >= Len(RetentionSetupCommands) /\ Close
    \/ idle /\ Open
    \/ PublishRaw
    \/ opened /\ RawDeliver
    \/ raw.active /\ raw.m.topic \notin cat.stale /\ RawStep
    \/ RawStale

SpecReload == InitCatalog /\ [][NextReload]_vars

\* ------------------------------------------------------------------ open specification

\* The errors of Open: ErrServerOpen, ErrPathRequired, and those of the
\* directories, of the metastore and of load.
ErrServerOpen == "server already open"
ErrPathRequired == "path required"
ErrMkdir == "mkdir"
ErrMetaOpen == "meta"
ErrLoad == "load"

\* Open, lines 193-226, returning an error: on an open server and with an
\* empty path nothing is assigned; otherwise s.path is assigned at line 202,
\* before the directories are made, the metastore is opened and load runs,
\* and each of these returns its error with the path left in place. A load
\* that fails has opened the stores of some of the shards.
OpenFails(newPath, err) ==
    /\ ~crashed
    /\ opens.calls < MaxOpens
    /\ err = (IF opened THEN ErrServerOpen
              ELSE IF newPath = "" THEN ErrPathRequired
              ELSE err)
    /\ path' = IF err \in {ErrServerOpen, ErrPathRequired} THEN path ELSE newPath
    /\ IF err = ErrLoad
       THEN \E some \in SUBSET allShardIDs(cat) :
               cat' = [cat EXCEPT !.stores = @ \cup some, !.stale = cat.shards]
       ELSE cat' = cat
    /\ opens' = [calls |-> opens.calls + 1, err |-> err, was |-> opened]
    /\ UNCHANGED <<done, client, index, errors, rlock, log, cursor, procs, callers,
                   crashed, last, prev, applied, recorded, returns, syncCalls,
                   replica, write, raw, sweep, rtask, lk, query, cqs>>

OpenErrors == {ErrServerOpen, ErrPathRequired, ErrMkdir, ErrMetaOpen, ErrLoad}

NextOpen ==
    \/ Open
    \/ \E p \in {"", "data"}, err \in OpenErrors : OpenFails(p, err)
    \/ Close
    \/ \E c \in 0..1 : SetClient(c)
    \/ StartRetentionPolicyEnforcement
    \/ RetentionExit
    \/ \E p \in Procs : ProcExit(p)

SpecOpen == Init /\ [][NextOpen]_vars

\* ------------------------------------------------------------------ claims C11-C20

\* C11: two nodes that have applied the same messages in the same order
\* hold the same catalog.
C11_ReplicasAgree == Catalog(cat) = Catalog(replica)

\* The call that write keeps wrote a value of another type than the type
\* its field had in the catalog when the call began.
writeConflicts ==
    /\ write.called
    /\ write.database \in DOMAIN write.before.databases
    /\ \E i \in DOMAIN write.points :
          LET p == write.points[i]
              db == write.before.databases[write.database]
          IN /\ p.Name \in DOMAIN db.measurements
             /\ \E k \in DOMAIN p.Values :
                   /\ FieldByName(db.measurements[p.Name], k) # 0
                   /\ db.measurements[p.Name].fields[
                          FieldByName(db.measurements[p.Name], k)].Type # p.Values[k]

\* C12: a WriteSeries whose value has another type than the existing field
\* returns an error, publishes no write-raw-series message and leaves the
\* measurements of the catalog as they were.
C12_ConflictRejected ==
    writeConflicts =>
        /\ ~write.panic
        /\ write.err # NoErr
        /\ write.published = <<>>
        /\ write.after.databases[write.database].measurements =
               write.before.databases[write.database].measurements

\* The points of the call that write keeps agree on the type of each field.
writeConsistent ==
    \A i \in DOMAIN write.points, j \in DOMAIN write.points :
        \A k \in DOMAIN write.points[i].Values \cap DOMAIN write.points[j].Values :
            write.points[i].Values[k] = write.points[j].Values[k]

\* What a point needs that the catalog s lacks is in the command c.
pointInCommand(s, database, c, p) ==
    LET db == s.databases[database]
        mm == db.measurements[p.Name]
    IN /\ p.Name \notin DOMAIN db.measurements => p.Name \in DOMAIN c
       /\ seriesOf(db, p.Name, p.Tags) = 0 =>
              p.Name \in DOMAIN c /\ p.Tags \in c[p.Name].Tags
       /\ \A k \in DOMAIN p.Values :
              (p.Name \notin DOMAIN db.measurements \/ FieldByName(mm, k) = 0) =>
                  p.Name \in DOMAIN c /\ k \in DOMAIN c[p.Name].Fields

\* The catalog s has the measurement, the series and the fields of a point.
pointInCatalog(s, database, p) ==
    LET db == s.databases[database]
    IN /\ p.Name \in DOMAIN db.measurements
       /\ seriesOf(db, p.Name, p.Tags) # 0
       /\ \A k \in DOMAIN p.Values : FieldByName(db.measurements[p.Name], k) # 0

\* C13: the create-measurements-if-not-exists command that WriteSeries
\* builds holds every measurement, series and field that a point of the
\* batch needs and the catalog lacks, and once the create step is over the
\* catalog has them all.
C13_CommandComplete ==
    (/\ write.called
     /\ write.database \in DOMAIN write.before.databases
     /\ ~writeConflicts
     /\ writeConsistent) =>
        \A i \in DOMAIN write.points :
            /\ pointInCommand(write.before, write.database, write.command,
                              write.points[i])
            /\ ~write.panic
            /\ write.err = NoErr =>
                   pointInCatalog(write.after, write.database, write.points[i])

\* C14: applying a create-measurements-if-not-exists command a second time,
\* right after the first, changes nothing: the catalog, its series ids and
\* its field ids are those the first apply left, in whatever order the
\* second apply walks the command.
C14_Idempotent ==
    (last.m.type = createMeasurementsIfNotExistsMessageType /\ ~crashed) =>
        \A o \in MapOrders :
            LET r == apply([cat EXCEPT !.mapOrder = o],
                           Message(index + 1, last.m.data))
            IN /\ ~r.panic
               /\ r.err = last.err
               /\ Catalog(r.s) = Catalog(cat)

\* The command applied last made two series and a field.
C14_Witness ==
    /\ last.m.type = createMeasurementsIfNotExistsMessageType
    /\ ~crashed
    /\ last.err = NoErr
    /\ last.m.data.database \in DOMAIN prev.databases
    /\ cat.databases[last.m.data.database].nextSeriesID =
           prev.databases[last.m.data.database].nextSeriesID + 2
    /\ \E n \in DOMAIN cat.databases[last.m.data.database].measurements :
           cat.databases[last.m.data.database].measurements[n].fields # <<>>

\* The writes that the write-raw-series apply under way has made.
rawWrites == SubSeq(cat.writes, raw.before + 1, Len(cat.writes))

\* Where record i of a batch begins, in bytes.
recordOffset(data, i) == batchLength(SubSeq(data, 1, i - 1))

\* C15: the apply of a write-raw-series message does not panic and writes
\* the records of the batch one after the other, each once, each with its
\* own series id, timestamp and payload bytes, and maps the series to the
\* shard.
C15_EachRecordOnce ==
    raw.active =>
        /\ ~crashed
        /\ Len(rawWrites) <= Len(raw.m.data)
        /\ \A i \in DOMAIN rawWrites :
              /\ i <= Len(raw.m.data)
              /\ rawWrites[i].seriesID = raw.m.data[i].seriesID
              /\ rawWrites[i].timestamp = raw.m.data[i].timestamp
              /\ rawWrites[i].from = recordOffset(raw.m.data, i) + pointHeaderSize
              /\ rawWrites[i].to = recordOffset(raw.m.data, i) + pointHeaderSize
                                       + raw.m.data[i].payloadLength
              /\ rawWrites[i].seriesID \in DOMAIN cat.shardsBySeriesID
              /\ raw.m.topic \in cat.shardsBySeriesID[rawWrites[i].seriesID]

\* The call that write keeps returned without an error.
writeSucceeded == write.called /\ ~write.panic /\ write.err = NoErr

\* The id of the shard that the routing rule gives a point, and the record
\* of the point, in the catalog the call left.
destination(p) ==
    LET db == write.after.databases[write.database]
        rp == db.policies[write.policy]
        g == rp.shardGroups[shardGroupByTimestamp(rp, p.Timestamp)]
    IN g.Shards[(seriesOf(db, p.Name, p.Tags) % Len(g.Shards)) + 1].ID

recordOf(p) ==
    LET db == write.after.databases[write.database]
        mm == db.measurements[p.Name]
    IN [seriesID |-> seriesOf(db, p.Name, p.Tags),
        payloadLength |-> encodedFieldSize * Cardinality(DOMAIN p.Values),
        timestamp |-> p.Timestamp,
        fields |-> {<<mm.fields[FieldByName(mm, k)].ID, p.Values[k]>> :
                        k \in DOMAIN p.Values}]

\* The records of the points routed to a shard, in the order of the batch.
routedTo(shard) ==
    LET there(p) == destination(p) = shard
        ps == SelectSeq(write.points, there)
    IN [j \in 1..Len(ps) |-> recordOf(ps[j])]

\* C16: a WriteSeries that succeeds publishes one write-raw-series message
\* for each shard a point of the batch is routed to and no other, with the
\* shard's id as its topic and the records routed there as its data, and
\* returns the largest index the broker gave them; the commands it
\* broadcast went to the broadcast topic.
C16_OneMessagePerShard ==
    writeSucceeded =>
        /\ {write.published[i].topic : i \in DOMAIN write.published} =
               {destination(write.points[i]) : i \in DOMAIN write.points}
        /\ \A i \in DOMAIN write.published, j \in DOMAIN write.published :
               write.published[i].topic = write.published[j].topic => i = j
        /\ \A i \in DOMAIN write.published :
               /\ write.published[i].type = writeRawSeriesMessageType
               /\ write.published[i].data = routedTo(write.published[i].topic)
               /\ write.published[i].index <= write.maxIndex
               /\ write.published[i].index \in DOMAIN log
               /\ log[write.published[i].index] = write.published[i]
        /\ \E i \in DOMAIN write.published :
               write.published[i].index = write.maxIndex
        /\ \A i \in DOMAIN write.broadcasts :
               /\ write.broadcasts[i].topic = BroadcastTopicID
               /\ write.broadcasts[i].type # writeRawSeriesMessageType

\* A write of two points that went to two shards, after the broadcast of
\* a command.
C16_Witness ==
    /\ writeSucceeded
    /\ Len(write.points) = 2
    /\ Len(write.published) = 2
    /\ write.broadcasts # <<>>

deleteApplied ==
    /\ last.m.type = deleteShardGroupMessageType
    /\ ~crashed
    /\ last.m.data.database \in DOMAIN prev.databases
    /\ last.m.data.name \in DOMAIN prev.databases[last.m.data.database].policies

groupsBefore ==
    prev.databases[last.m.data.database].policies[last.m.data.name].shardGroups

groupsAfter ==
    cat.databases[last.m.data.database].policies[last.m.data.name].shardGroups

deletedGroups == {i \in DOMAIN groupsBefore : groupsBefore[i].ID = last.m.data.id}

\* The shards of the deleted group that have this node among their data
\* nodes.
deletedOwnShards ==
    UNION {{groupsBefore[i].Shards[k].ID : k \in
                {k \in DOMAIN groupsBefore[i].Shards :
                     prev.id \in Range(groupsBefore[i].Shards[k].DataNodeIDs)}} :
           i \in deletedGroups}

\* C18: a delete-shard-group for a group the policy does not have succeeds
\* and changes nothing; for a group it has, that group and no other leaves
\* the policy, and the stores of its shards on this node, and no other
\* store, are closed and removed.
C18_DeleteExact ==
    deleteApplied =>
        /\ deletedGroups = {} =>
               /\ last.err = NoErr
               /\ Catalog(cat) = Catalog(prev)
               /\ cat.stores = prev.stores
        /\ deletedGroups # {} =>
               /\ Len(groupsAfter) = Len(groupsBefore) - 1
               /\ \A i \in DOMAIN groupsBefore :
                      i \notin deletedGroups =>
                          \E j \in DOMAIN groupsAfter : groupsAfter[j] = groupsBefore[i]
               /\ \A j \in DOMAIN groupsAfter : groupsAfter[j].ID # last.m.data.id
               /\ cat.stores = prev.stores \ deletedOwnShards
               /\ cat.dataNodes = prev.dataNodes
               /\ DOMAIN cat.databases = DOMAIN prev.databases

\* The second of two groups was deleted on a node that holds one of its
\* two shards.
C18_Witness ==
    /\ deleteApplied
    /\ Len(groupsBefore) = 2
    /\ deletedGroups = {2}
    /\ Len(groupsBefore[2].Shards) = 2
    /\ Cardinality(deletedOwnShards) = 1
    /\ deletedOwnShards \subseteq prev.stores

\* C19: a handler that returns an error, whatever the metastore's update
\* did, leaves the catalog and the shard stores as they were.
C19_NoPartialCommit ==
    (last.m.type # "" /\ ~crashed /\ last.err # NoErr) =>
        /\ Catalog(cat) = Catalog(prev)
        /\ cat.stores = prev.stores

\* C20: a message whose payload cannot be decoded does not panic the
\* process: once the processor has taken it, the process runs on, and when
\* the handler is done the index is applied and an error is recorded
\* under it.
C20_MalformedRecorded ==
    \A i \in malformed(log) :
        (i <= cursor /\ log[i].topic \in cat.subs) =>
            /\ ~crashed
            /\ \/ raw.active /\ raw.m.index = i
               \/ index >= i /\ i \in DOMAIN errors

\* C21: when a Publish fails inside WriteSeries, the call returns the failure
\* and nothing has changed: the catalog is as it was before the call and the
\* call has published no message.
C21_PublishFailureNoMutation ==
    write.called /\ write.err = ErrPublish =>
        /\ Catalog(write.after) = Catalog(write.before)
        /\ write.broadcasts = <<>>
        /\ write.published = <<>>

\* C22: a Close of an open server that has a messaging client and a
\* running retention task (the step that clears the path) leaves every
\* processor that was running with its done signal given, so that it ends
\* at its next select and takes no other message, leaves the retention task
\* with its done signal given, and leaves no shard store open.
C22_CloseStopsTasks ==
    [][(opened /\ path' = "" /\ client # 0 /\ rtask.state = "select") =>
           /\ \A p \in Procs :
                  procs[p].state \notin {"none", "exit"} => procs'[p].closed
           /\ rtask'.done = "closed"
           /\ cat'.stores = {}]_vars

\* C24: of the calls of Sync for one index, whatever their interleaving, at
\* most one returns the error that the apply of that index recorded: the
\* entry of the errors map is read and deleted by one caller only.
C24_ErrorConsumedOnce ==
    \A i \in 1..MaxMsgs :
        Cardinality({k \in DOMAIN returns[i] : returns[i][k].err # NoErr}) <= 1

\* C28: on the node that stays open with a processor running, a caller that
\* waits in Sync for an index the broker has assigned eventually returns.
C28_SyncReturns ==
    \A c \in Callers : callers[c].pc = "sync" ~> callers[c].pc = "done"

\* The shards of every group of the catalog.
allShards(s) ==
    UNION {UNION {UNION {Range(g.Shards) :
                         g \in Range(s.databases[d].policies[r].shardGroups)} :
                  r \in DOMAIN s.databases[d].policies} :
           d \in DOMAIN s.databases}

\* C27: in every state of the node, right after a load too, the store of a
\* shard is open only if the node's id is among the shard's data node ids.
C27_StoresOwned ==
    \A sh \in allShards(cat) : sh.ID \in cat.stores => HasDataNodeID(sh, cat.id)

\* The fields of the server that make up the node's shared state, and a
\* shard's store.
SharedState ==
    {"id", "dataNodes", "databases", "policies", "shardGroups", "measurements",
     "continuousQueries", "users", "shards", "shardsBySeriesID", "store"}

\* C23: a goroutine that writes a field of the node's shared state, or a
\* shard store, holds the write lock when it does.
C23_WritesUnderWriteLock ==
    \A t \in LockThreads :
        running(t) /\ pending(t).do = "write" /\ pending(t).what \in SharedState
            => lk[t].holds = "w"

\* C29: a goroutine that reads the catalog in an operation that is not an
\* apply handler holds the read lock (or the write lock) when it does.
C29_ReadsUnderReadLock ==
    running("caller") /\ pending("caller").do = "read"
            /\ pending("caller").what \in SharedState
        => lk["caller"].holds \in {"r", "w"}

\* C30: a goroutine that calls Publish, or that waits in Sync, holds the
\* lock neither for reading nor for writing, so the processor can take the
\* write lock while it waits.
C30_NoLockAcrossPublish ==
    \A t \in LockThreads :
        running(t) /\ pending(t).do \in {"publish", "wait"} => lk[t].holds = ""

\* The caller is inside broadcast, its message published, while the
\* processor holds the write lock in a handler.
C30_Witness ==
    /\ running("caller")
    /\ pending("caller") = Step("wait", "Sync", 414)
    /\ lk["processor"].holds = "w"

\* C25: ExecuteQuery halts on the first statement that returns an error
\* (a normalization error too): every statement before that one has a result
\* of its own, that statement has its error, and every statement after it is
\* reported with the not-executed error and has published nothing.
C25_HaltsOnFirstError ==
    query.called /\ query.Err = NoErr /\ query.broke # 0 =>
        \A i \in 1..Len(query.stmts) :
            /\ i < query.broke => query.Results[i].Err # ErrNotExecuted
            /\ i = query.broke => query.Results[i].Err \notin {NoErr, ErrNotExecuted}
            /\ i > query.broke =>
                   /\ query.Results[i].Err = ErrNotExecuted
                   /\ i \notin Range(query.executed)
                   /\ i \notin Range(query.by)

\* The user holds less than one of the privileges that the statements
\* require, on the database of the privilege or else that of the call.
lacksPrivilege(u, stmts, database) ==
    \E i \in 1..Len(stmts) : \E j \in 1..Len(stmts[i].privs) :
        LET p == stmts[i].privs[j]
            d == IF p.Name = "" THEN database ELSE p.Name
        IN ~(d \in DOMAIN u.Privileges /\ u.Privileges[d] >= p.Privilege)

allPolicies(s) ==
    UNION {Range(s.databases[d].policies) : d \in DOMAIN s.databases}

\* C31: every retention policy in the catalog, after any sequence of applied
\* create-retention-policy and update-retention-policy commands, has
\* replicaN >= 1 and duration > 0.
C31_PoliciesValid ==
    \A rp \in allPolicies(cat) : rp.ReplicaN >= 1 /\ rp.Duration > 0

\* C32: under any interleaving of the ticks of RunContinuousQueries, no two
\* executions of the same continuous query overlap: two goroutines that hold
\* a query's lock at once run different queries.
C32_SerializedPerCQ ==
    \A g, h \in DOMAIN cqs :
        g # h /\ cqs[g].state = "running" /\ cqs[h].state = "running" =>
            cqs[g].target # cqs[h].target

\* Two queries run at once while a third goroutine waits for one of them.
C32_Witness ==
    \E g, h, k \in DOMAIN cqs :
        /\ cqs[g].state = "running" /\ cqs[g].target = CQNames[1]
        /\ cqs[h].state = "running" /\ cqs[h].target = CQNames[2]
        /\ cqs[k].state = "waiting" /\ cqs[k].target = CQNames[1]

\* C33: in every state, the default retention policy of a database is
\* empty or the name of a policy the database has, after the delete of the
\* default policy and after its rename too.
C33_DefaultPolicyExists ==
    \A d \in DOMAIN cat.databases :
        \/ cat.databases[d].defaultRetentionPolicy = ""
        \/ cat.databases[d].defaultRetentionPolicy \in DOMAIN cat.databases[d].policies

\* The last message applied was an update-retention-policy with a new name,
\* and it returned no error.
renameApplied ==
    /\ last.m.type = updateRetentionPolicyMessageType
    /\ last.m.data.newName # ""
    /\ last.err = NoErr

\* C34: update-retention-policy with a new name leaves the database with as
\* many policies as before and every other policy as it was; the renamed
\* policy is under the new name and not under the old one.
C34_RenameKeepsOthers ==
    renameApplied =>
        LET c == last.m.data
            before == prev.databases[c.database].policies
            after == cat.databases[c.database].policies
        IN /\ Cardinality(DOMAIN after) = Cardinality(DOMAIN before)
           /\ \A n \in DOMAIN before \ {c.name} : n \in DOMAIN after /\ after[n] = before[n]
           /\ c.newName \in DOMAIN after
           /\ c.newName # c.name => c.name \notin DOMAIN after

\* C35: in every state, every shard of the node's shard map belongs to a
\* group that the catalog holds, and the store of one that the node owns is
\* open: no entry outlives the delete of its group.
C35_ShardMapLive ==
    \A id \in cat.shards :
        \E sh \in allShards(cat) :
            /\ sh.ID = id
            /\ HasDataNodeID(sh, cat.id) => id \in cat.stores

\* The write-raw-series messages that the processor has taken, on the topic
\* of a shard that this node owns in a group of the catalog.
deliveredToOwned ==
    {i \in 1..cursor :
        /\ log[i].type = writeRawSeriesMessageType
        /\ \E sh \in allShards(cat) :
               sh.ID = log[i].topic /\ HasDataNodeID(sh, cat.id)}

\* C36: after the node is closed and opened again, a write-raw-series
\* message on the topic of a shard that the node owns in a group of the
\* catalog is applied to the store of that shard: the handler finds the
\* shard that load opened, and no error is recorded for the message.
C36_ReloadedShardWritten ==
    \A i \in deliveredToOwned :
        /\ ~crashed
        /\ log[i].index \notin DOMAIN errors
        /\ raw.active => raw.m.topic \notin cat.stale

\* C37: a call of Open that returns an error leaves the server's status as
\* it was: a server that was closed is still closed for opened().
C37_FailedOpenKeepsStatus ==
    [][(opens'.calls # opens.calls /\ opens'.err # NoErr) =>
           (opened' <=> opened)]_vars

\* C38: in the results of ExecuteQuery a statement has the not-executed
\* error only if an earlier statement of the query returned an error; a
\* statement reached with no earlier failure is never reported as not
\* executed.
C38_NotExecutedOnlyAfterError ==
    query.called /\ query.Err = NoErr =>
        \A i \in 1..Len(query.stmts) :
            query.Results[i].Err = ErrNotExecuted =>
                \E j \in 1..(i - 1) :
                    query.Results[j].Err \notin {NoErr, ErrNotExecuted}

\* C39: applying create-shard-group-if-not-exists never ends the process,
\* whatever the catalog: with no data node the handler returns (an error, or
\* a group with no shards) and the index of the message is applied.
C39_CreateShardGroupNeverPanics ==
    last.m.type = createShardGroupIfNotExistsMessageType =>
        /\ ~crashed
        /\ index >= last.m.index

\* C40: every message the processor has taken from the stream is applied or
\* still in the processor's hands on its way to the handler: none is taken
\* and dropped, so the applied index reaches every index taken.
C40_NoMessageDiscarded ==
    ~crashed =>
        \A i \in 1..cursor :
            \/ i \in Range(applied)
            \/ \E p \in Procs : /\ procs[p].state \in {"check", "apply"}
                                /\ procs[p].m.index = i

====
